---------------------------- MODULE Spec2Model ----------------------------
(***************************************************************************)
(* Local file-system storage of deker arrays (deker-local-adapters).      *)
(*                                                                         *)
(* Two parts of the program are modelled, each with its own variables:     *)
(*   - the HDF5 container of one array (HDF5StorageAdapter): the "data"    *)
(*     dataset (dense block, optional), the "empty_cells" scalar and the   *)
(*     "meta" blob, with create / read_data / update_data / clear_data;    *)
(*   - the array store of one collection (LocalArrayAdapter and            *)
(*     LocalAdapterMixin): main container files, symlinks in the           *)
(*     primary-attribute directories, with create / delete /               *)
(*     get_by_primary_attributes.                                          *)
(*                                                                         *)
(* Arrays are one-dimensional: a shape is the tuple (n,), modelled by n,   *)
(* and bounds are a slice lo..hi (1-based, inclusive) of it.               *)
(***************************************************************************)
EXTENDS Integers, Sequences, FiniteSets

\* Largest array shape (n,) explored.
MaxCells == 3

\* Number of array ids explored in the store.
MaxArrays == 3

\* The floating-point NaN, the one value for which v == v is false.
NaN == -1

\* Cell values: two ordinary numbers and NaN.
Values == {0, 1, NaN}

\* Fill values an array schema may declare.
FillValues == {0, NaN}

\* f.get("data") is None: the container has no dense block.
None == <<>>

VARIABLES
    \* ---- the container of one array
    shape,        \* array.shape = (shape,)
    fill_value,   \* array.fill_value
    data,         \* the "data" dataset: None, or a sequence of shape values
    empty_cells,  \* the "empty_cells" scalar dataset
    call,         \* the last storage call: [op, lo, hi, data]
    pre,          \* the container when that call started: [data, empty_cells]
    ret,          \* what the call returned (the block or the meta read, an
                  \* exception raised), else None
    meta,         \* the "meta" dataset: None, or the JSON text of the metadata
    vdoc,         \* the document of a virtual array: None while there is no
                  \* such file, else the JSON text of its metadata
    \* ---- the array store of one collection
    main_files,   \* ids whose main container file exists
    symlinks,     \* ids whose symlink exists (in the directory of their attributes)
    main_dirs,    \* ids whose main shard directory (the file's parent) exists
    symlink_dirs, \* primary-attribute values whose symlink directory exists
    shard_dirs,   \* upper shard directories of the data tree that exist
    roots,        \* root directories (data_dir, symlinks_dir) that exist
    varray_dirs,  \* virtual-array ids whose main path exists in varray_data
    req,          \* the last store call: [op, id, attrs]
    res,          \* its outcome: [kind, id]
    pc,           \* position of each create or delete call in its steps
    batch,        \* the delete_all_by_vid call in progress: [phase, vid, items,
                  \* pending, failed, result]
    tree,         \* the paths that exist below the collection directory, in
                  \* the model that follows create and delete call by call
    task,         \* there, the create or delete call of each array: [op, pc,
                  \* target, folder, parents, file, out]
    \* ---- the collection registry
    coll_dirs,    \* names whose collection directory exists
    coll_docs,    \* name -> text of <name>.json in that directory, or None
    coll_tree,    \* name -> the other paths below that directory
    coll_locks,   \* names whose <name>.lock file exists beside the directories
    creq,         \* the last registry call: [op, name, collection]
    cres,         \* its outcome: [kind, value]; for clear and delete the
                  \* value is what the call removed
    coll_creating, \* name -> <<collection>> while a create of it is between
                  \* making the directory and writing the document, else None
    \* ---- storage options on their way through the metadata document
    o_args,       \* the arguments given: [chunks, compression, compression_opts]
    o_options,    \* HDF5Options built from them, or the exception raised
    o_dict,       \* its as_dict
    o_kwargs,     \* _process_options of that dict, or the exception raised
    o_back,       \* HDF5Options rebuilt from it, or the exception raised
    o_pc          \* how far the conversion went

containerVars ==
    <<shape, fill_value, data, empty_cells, call, pre, ret, meta, vdoc>>
treeVars == <<shard_dirs, roots, varray_dirs>>
storeVars == <<main_files, symlinks, main_dirs, symlink_dirs, treeVars, req, res, pc>>
registryVars == <<coll_dirs, coll_docs, coll_tree, coll_locks, creq, cres>>
optionVars == <<o_args, o_options, o_dict, o_kwargs, o_back, o_pc>>
pathVars == <<tree, task>>
vars ==
    <<containerVars, storeVars, registryVars, optionVars, batch, pathVars,
      coll_creating>>

\* What a call on one part of the program leaves alone.
\* (A whole call of the registry leaves coll_creating alone as well: the
\* steps of create, which change it, leave notCreate alone.)
notCreate == <<containerVars, storeVars, optionVars, batch, pathVars>>
notContainer == <<storeVars, registryVars, optionVars, batch, pathVars, coll_creating>>
notStore == <<containerVars, registryVars, optionVars, batch, pathVars, coll_creating>>
notRegistry == <<notCreate, coll_creating>>
notOptions == <<containerVars, storeVars, registryVars, batch, pathVars, coll_creating>>
notArray == <<registryVars, optionVars, batch, pathVars, coll_creating>>
notBatch == <<containerVars, registryVars, optionVars, pathVars, coll_creating>>
notPaths == <<containerVars, storeVars, registryVars, optionVars, batch, coll_creating>>

---------------------------------------------------------------------------
\* Python values, each with its type: None, True, an int, a str that is a
\* name, a str that is the decimal text of an int, a tuple, a list.
PyNone == <<"None">>
PyTrue == <<"True">>
PyInt(n) == <<"int", n>>
PyStr(s) == <<"str", s>>
PyNumStr(n) == <<"numstr", n>>
PyTuple(items) == <<"tuple", items>>
PyList(items) == <<"list", items>>

\* An exception raised in place of a value.
Raised(e) == <<"raised", e>>
IsRaised(v) == v[1] = "raised"

IsSequence(v) == v[1] \in {"tuple", "list"}
IsStr(v) == v[1] \in {"str", "numstr"}
IsInt(v) == v[1] = "int"

\* A datetime value.
PyDatetime(t) == <<"datetime", t>>

\* A dict of one item.
PyDict(key, value) == <<"dict", key, value>>

\* array._create_meta(): the JSON text of the metadata of a new array, its
\* custom attribute not set.  The text of a document is the document as
\* json.loads gives it back, marked as text.
CreatedMeta ==
    <<"json", [id |-> "id", primary_attributes |-> "primary", vid |-> "vid",
               custom_attributes |-> PyDict(PyStr("ca"), PyNone)]>>

---------------------------------------------------------------------------
\* Helpers of the container model.

\* np.isnan(v)
IsNaN(v) == v = NaN

\* calculate_total_cells_in_array(shape) for a shape (n,)
calculate_total_cells_in_array(n) == n

\* create_shape_from_slice(shape, bounds) for the slice lo..hi of (n,)
create_shape_from_slice(lo, hi) == hi - lo + 1

\* The slices of an array of shape (n,).
Bounds(n) == {b \in (1..n) \X (1..n) : b[1] <= b[2]}

\* The blocks of a given length.
Blocks(len) == [1..len -> Values]

\* ndarray(shape); fill(v)
Full(n, v) == [i \in 1..n |-> v]

\* ds[bounds] = block
Assign(ds, lo, block) ==
    [i \in 1..Len(ds) |->
        IF i >= lo /\ i < lo + Len(block) THEN block[i - lo + 1] ELSE ds[i]]

\* ds[bounds]
Slice(ds, lo, hi) == [i \in 1..(hi - lo + 1) |-> ds[lo + i - 1]]

\* Whether a stored value is the fill value: NaN-aware, as update_data counts it.
IsFill(v, fv) == IF IsNaN(fv) THEN IsNaN(v) ELSE (~IsNaN(v) /\ v = fv)

\* fill_value_in_data: the cells of the written block that equal the fill value.
fill_value_in_data(block, fv) ==
    Cardinality({i \in DOMAIN block : IsFill(block[i], fv)})


---------------------------------------------------------------------------
\* The container: HDF5StorageAdapter.

\* The record of a call and of the container it found.
Call(op, lo, hi, block) == [op |-> op, lo |-> lo, hi |-> hi, data |-> block]
Pre == [data |-> data, empty_cells |-> empty_cells]

\* create: "w" mode truncates the file; the meta and the counter are written,
\* no dense block is allocated.
create ==
    /\ data' = None
    /\ empty_cells' = calculate_total_cells_in_array(shape)
    /\ call' = Call("create", 0, 0, None)
    /\ pre' = Pre
    /\ ret' = None
    /\ meta' = CreatedMeta
    /\ UNCHANGED <<shape, fill_value, vdoc>>

\* A read_data that leaves the synthesized block at np.zeros.
ReadBlockZeros(ds, n, lo, hi, fv) ==
    Slice(IF ds = None THEN Full(n, 0) ELSE ds, lo, hi)

\* read_data's result: the block synthesized from the fill value when no dense
\* block exists, else the dense block, sliced by the bounds.
ReadBlock(ds, n, lo, hi, fv) ==
    Slice(IF ds = None THEN Full(n, fv) ELSE ds, lo, hi)

\* A read_data that keeps the block it synthesized in the container.
read_data_keeping(lo, hi) ==
    /\ ret' = ReadBlock(data, shape, lo, hi, fill_value)
    /\ data' = IF data = None THEN Full(shape, fill_value) ELSE data
    /\ call' = Call("read_data", lo, hi, None)
    /\ pre' = Pre
    /\ UNCHANGED <<shape, fill_value, empty_cells, meta, vdoc>>

\* HDF5StorageAdapter.read_data: the file is opened in "r" mode.
read_data(lo, hi) ==
    /\ ret' = ReadBlock(data, shape, lo, hi, fill_value)
    /\ call' = Call("read_data", lo, hi, None)
    /\ pre' = Pre
    /\ UNCHANGED <<shape, fill_value, data, empty_cells, meta, vdoc>>

\* An update_data that does not take the covered cells off the counter.
UpdatedEmptyCellsNoSubtract(counter, subset_cells, in_data) ==
    (IF counter > 0 THEN counter ELSE 0) + in_data

\* updated_empty_cells of update_data: the counter less the cells covered,
\* clamped at 0, plus the fill values in the written block.
UpdatedEmptyCells(counter, subset_cells, in_data) ==
    LET empty == counter - subset_cells
    IN  (IF empty > 0 THEN empty ELSE 0) + in_data

\* An update_data that allocates a new block at every call.
StoredBlockFresh(ds, n, fv, lo, block) == Assign(Full(n, fv), lo, block)

\* The dense block update_data stores: the bounds overwritten in place, or a
\* new block of the full shape filled with the fill value, then overwritten.
StoredBlock(ds, n, fv, lo, block) ==
    IF ds # None THEN Assign(ds, lo, block) ELSE Assign(Full(n, fv), lo, block)

update_data(lo, hi, block) ==
    LET total_cells == calculate_total_cells_in_array(shape)
        subset_cells == calculate_total_cells_in_array(create_shape_from_slice(lo, hi))
        updated_empty_cells ==
            UpdatedEmptyCells(empty_cells, subset_cells,
                              fill_value_in_data(block, fill_value))
    IN  /\ IF updated_empty_cells >= total_cells
           THEN /\ data' = None
                /\ empty_cells' = total_cells
           ELSE /\ data' = StoredBlock(data, shape, fill_value, lo, block)
                /\ empty_cells' = updated_empty_cells
        /\ call' = Call("update_data", lo, hi, block)
        /\ pre' = Pre
        /\ ret' = None
        /\ UNCHANGED <<shape, fill_value, meta, vdoc>>

\* A clear_data that deletes the block only when the counter exceeds the total.
ClearDeletesStrict(n, subset_shape, updated_empty_cells, total_cells) ==
    updated_empty_cells > total_cells

\* Whether clear_data deletes the dense block: the cleared region has the
\* shape of the block, or the counter reaches the total.
ClearDeletes(n, subset_shape, updated_empty_cells, total_cells) ==
    n = subset_shape \/ updated_empty_cells >= total_cells

clear_data(lo, hi) ==
    LET subset_shape == create_shape_from_slice(lo, hi)
        total_cells == calculate_total_cells_in_array(shape)
        subset_cells == calculate_total_cells_in_array(subset_shape)
        updated_empty_cells == empty_cells + subset_cells
    IN  /\ IF data # None
           THEN IF ClearDeletes(shape, subset_shape, updated_empty_cells, total_cells)
                THEN /\ data' = None
                     /\ empty_cells' = total_cells
                ELSE /\ data' = Assign(data, lo, Full(subset_shape, fill_value))
                     /\ empty_cells' = updated_empty_cells
           ELSE UNCHANGED <<data, empty_cells>>
        /\ call' = Call("clear_data", lo, hi, None)
        /\ pre' = Pre
        /\ ret' = None
        /\ UNCHANGED <<shape, fill_value, meta, vdoc>>

\* A new array: any shape and fill value of the schema, its container created.
ContainerInit ==
    /\ shape \in 1..MaxCells
    /\ fill_value \in FillValues
    /\ data = None
    /\ empty_cells = calculate_total_cells_in_array(shape)
    /\ call = Call("create", 0, 0, None)
    /\ pre = [data |-> None, empty_cells |-> empty_cells]
    /\ ret = None
    /\ meta = CreatedMeta
    /\ vdoc = None

---------------------------------------------------------------------------
\* The store: LocalArrayAdapter / LocalVArrayAdapter with LocalAdapterMixin.
\* Both adapters share these operations; the virtual-array adapter writes a
\* JSON document where the array adapter creates an HDF5 container.

\* The array ids, and the primary attributes of each array: arrays 1 and 2
\* share theirs, as do 3 and 4, and so on.
Ids == 1..MaxArrays
primary_attributes(id) == (id + 1) \div 2
Attrs == {primary_attributes(id) : id \in Ids}

Req(op, id, attrs) == [op |-> op, id |-> id, attrs |-> attrs]
Res(kind, id) == [kind |-> kind, id |-> id]

\* The arrays followed call by call, and a call that has not started.
Racers == {"a", "b", "c"}
NoTask ==
    [op |-> "none", pc |-> "idle", target |-> <<>>, folder |-> <<>>,
     parents |-> FALSE, file |-> 0, out |-> "none"]

\* The sets and records of the store before any array is created.
StoreEmpty ==
    /\ main_files = {}
    /\ symlinks = {}
    /\ main_dirs = {}
    /\ symlink_dirs = {}
    /\ shard_dirs = {}
    /\ roots = {}
    /\ varray_dirs = {}
    /\ req = Req("none", 0, 0)
    /\ res = Res("none", 0)
    /\ pc = [id \in Ids |-> "idle"]
    /\ batch = [phase |-> "idle", vid |-> 0, items |-> {}, pending |-> {},
                failed |-> {}, result |-> Res("none", 0)]

\* The collection before any array is created.
StoreIdle ==
    /\ StoreEmpty
    /\ tree = {}
    /\ task = [a \in Racers |-> NoTask]

\* The virtual array an array is part of (array._vid), 0 for none: the arrays
\* with primary attributes 1 are the arrays at one position of virtual array 1
\* (their primary attributes are vid and v_position).
array_vid(id) == IF primary_attributes(id) = 1 THEN 1 ELSE 0
Vids == {1}

\* self.dirs: the names of the two root directories, a name being a sequence
\* of text pieces.
data_dir == <<"array_data">>
symlinks_dir == <<"array_symlinks">>
dirs == {data_dir, symlinks_dir}

\* The name of a directory of the data tree: a piece of the array id.
main_dir_name == <<"5f2c">>

\* The name of the directory of primary attributes a: for a virtual array's
\* arrays the position, else the value of a string attribute, which here is
\* "my_array_data".
attr_dir_name(a) == IF a = 1 THEN <<"0-0">> ELSE <<"my_", "array_data">>

\* The upper shard directory of an array id; ids 2 and 3 share theirs.
shard(id) == id \div 2

\* str.endswith
EndsWith(name, suffix) ==
    /\ Len(name) >= Len(suffix)
    /\ SubSeq(name, Len(name) - Len(suffix) + 1, Len(name)) = suffix

\* any(str(folder).endswith(directory) for directory in self.dirs)
EndsWithRoot(name) == \E directory \in dirs : EndsWith(name, directory)

\* One turn of the sweep loop of _delete: the folder is removed unless it has
\* entries or its path ends with the name of a root directory.
Removable(subs, name) == subs = {} /\ ~EndsWithRoot(name)

\* A scan that yields every symlink of the collection, whatever directory it
\* lies in.
EntriesAnywhere(a) == symlinks

\* os.scandir of the symlink directory of primary attributes a: the symlinks
\* <id>.<ext> of the arrays created with these attributes.
Entries(a) == {id \in symlinks : primary_attributes(id) = a}

\* deker_tools.path.is_empty of that directory.
is_empty(a) == Entries(a) = {}

\* paths.create() in get_filenames_for_create_methods: the directories of both
\* paths are made, parents included, before any check.
PathsCreate(id) ==
    /\ main_dirs' = main_dirs \cup {id}
    /\ symlink_dirs' = symlink_dirs \cup {primary_attributes(id)}
    /\ shard_dirs' = shard_dirs \cup {shard(id)}
    /\ roots' = roots \cup dirs

\* A check that finds no file, whatever is on disk.
check_no_file(id) == FALSE

\* check_array_file_existence raises DekerArrayError.
check_array_file_existence(id) == id \in main_files

\* The check of the parent virtual array raises DekerArrayError when the array
\* has a vid and the main path of that virtual array does not exist.
check_varray_existence(id) == array_vid(id) # 0 /\ array_vid(id) \notin varray_dirs

\* A check that looks only for the array's own symlink file.
check_own_symlink(id) == id \in symlinks

\* check_symlink_existence raises DekerValidationError ("already exists")
\* when the directory of the array's primary attributes is not empty.
check_symlink_existence(id) == ~is_empty(primary_attributes(id))

\* create(array), as one call.
array_create(id) ==
    /\ PathsCreate(id)
    /\ req' = Req("create", id, primary_attributes(id))
    /\ IF check_array_file_existence(id)
       THEN /\ res' = Res("DekerArrayError", id)
            /\ UNCHANGED <<main_files, symlinks>>
       ELSE IF check_varray_existence(id)
       THEN /\ res' = Res("DekerArrayError", id)
            /\ UNCHANGED <<main_files, symlinks>>
       ELSE IF check_symlink_existence(id)
       THEN /\ res' = Res("DekerValidationError", id)
            /\ UNCHANGED <<main_files, symlinks>>
       ELSE /\ main_files' = main_files \cup {id}
            /\ symlinks' = symlinks \cup {id}
            /\ res' = Res("created", id)
    /\ UNCHANGED <<varray_dirs, pc>>

\* The sweep of _delete from the container's path (file = data): the file's
\* parent, then the upper shard directory, then the data root, each removed
\* while Removable; files and sdirs are the container files and the symlink
\* directories at the time of the sweep.
SweepData(id, files) ==
    LET parent_exists == id \in main_dirs
        rm_parent == parent_exists /\ Removable({id} \cap files, main_dir_name)
        mdirs == IF rm_parent THEN main_dirs \ {id} ELSE main_dirs
        rm_shard == rm_parent
                    /\ Removable({j \in mdirs : shard(j) = shard(id)}, main_dir_name)
        shards == IF rm_shard THEN shard_dirs \ {shard(id)} ELSE shard_dirs
        rm_root == rm_shard /\ Removable(shards, data_dir)
    IN  [main_dirs |-> mdirs, shard_dirs |-> shards,
         roots |-> IF rm_root THEN roots \ {data_dir} ELSE roots]

\* The sweep from the symlink's path (file = symlink), after the sweep from
\* the container's path left the root directories rts: the directory of the
\* primary attributes, then the symlink root.
SweepSymlink(id, links, rts) ==
    LET a == primary_attributes(id)
        parent_exists == a \in symlink_dirs
        rm_parent == parent_exists
                     /\ Removable({j \in links : primary_attributes(j) = a},
                                  attr_dir_name(a))
        sdirs == IF rm_parent THEN symlink_dirs \ {a} ELSE symlink_dirs
        rm_root == rm_parent /\ Removable(sdirs, symlinks_dir)
    IN  [symlink_dirs |-> sdirs,
         roots |-> IF rm_root THEN rts \ {symlinks_dir} ELSE rts]

\* for file in (data, symlink): the two sweeps, one after the other.
Sweep(id, files, links) ==
    LET d == SweepData(id, files)
        s == SweepSymlink(id, links, d.roots)
    IN  /\ main_dirs' = d.main_dirs
        /\ shard_dirs' = d.shard_dirs
        /\ symlink_dirs' = s.symlink_dirs
        /\ roots' = s.roots

\* delete without symlink.unlink: the container is removed, the link record
\* stays in the directory of the primary attributes.
array_delete_keeping_link(id) ==
    /\ req' = Req("delete", id, primary_attributes(id))
    /\ res' = Res("deleted", id)
    /\ IF id \notin symlinks
       THEN UNCHANGED <<main_files, symlinks, main_dirs, symlink_dirs,
                        shard_dirs, roots>>
       ELSE /\ main_files' = main_files \ {id}
            /\ UNCHANGED symlinks
            /\ Sweep(id, main_files \ {id}, symlinks)
    /\ UNCHANGED <<varray_dirs, pc>>

\* delete without the except clause of _delete: the FileNotFoundError of
\* readlink on a missing symlink reaches the caller.
array_delete_strict(id) ==
    /\ req' = Req("delete", id, primary_attributes(id))
    /\ IF id \notin symlinks
       THEN /\ res' = Res("FileNotFoundError", id)
            /\ UNCHANGED <<main_files, symlinks, main_dirs, symlink_dirs,
                           shard_dirs, roots>>
       ELSE /\ res' = Res("deleted", id)
            /\ main_files' = main_files \ {id}
            /\ symlinks' = symlinks \ {id}
            /\ Sweep(id, main_files \ {id}, symlinks \ {id})
    /\ UNCHANGED <<varray_dirs, pc>>

\* delete(array) -> _delete(symlink): readlink of a missing symlink raises
\* FileNotFoundError, which is swallowed; else the container and the symlink
\* are removed and the emptied directories swept.
array_delete(id) ==
    /\ req' = Req("delete", id, primary_attributes(id))
    /\ res' = Res("deleted", id)
    /\ IF id \notin symlinks
       THEN UNCHANGED <<main_files, symlinks, main_dirs, symlink_dirs,
                        shard_dirs, roots>>
       ELSE /\ main_files' = main_files \ {id}
            /\ symlinks' = symlinks \ {id}
            /\ Sweep(id, main_files \ {id}, symlinks \ {id})
    /\ UNCHANGED <<varray_dirs, pc>>

\* LocalVArrayAdapter.create of virtual array v, as far as the array store
\* sees it: the main path of v exists from then on.
varray_create(v) ==
    /\ v \notin varray_dirs
    /\ varray_dirs' = varray_dirs \cup {v}
    /\ req' = Req("varray_create", v, 0)
    /\ res' = Res("created", v)
    /\ UNCHANGED <<main_files, symlinks, main_dirs, symlink_dirs, shard_dirs,
                   roots, pc>>

\* A lookup that passes over a symlink whose target is missing.
EntryOutcomeSkipBroken(e) ==
    IF e \in main_files THEN Res("array", e) ELSE Res("None", 0)

\* What get_by_primary_attributes does with a directory entry: a symlink whose
\* target is a file yields the array, a symlink whose target is missing raises
\* DekerBrokenSymlinkError.
EntryOutcome(e) ==
    IF e \in main_files THEN Res("array", e) ELSE Res("DekerBrokenSymlinkError", e)

\* get_by_primary_attributes: the first entry os.scandir yields decides (the
\* order of entries is the file system's); a missing or empty directory
\* gives None.
get_by_primary_attributes(a) ==
    /\ req' = Req("get_by_primary_attributes", 0, a)
    /\ IF a \notin symlink_dirs \/ Entries(a) = {}
       THEN res' = Res("None", 0)
       ELSE \E e \in Entries(a) : res' = EntryOutcome(e)
    /\ UNCHANGED <<main_files, symlinks, main_dirs, symlink_dirs, treeVars, pc>>

\* What get_by_id returns: the array if its main container file exists, else
\* None.
ById(id) == IF id \in main_files THEN Res("array", id) ELSE Res("None", 0)

get_by_id(id) ==
    /\ req' = Req("get_by_id", id, 0)
    /\ res' = ById(id)
    /\ UNCHANGED <<main_files, symlinks, main_dirs, symlink_dirs, treeVars, pc>>

\* is_deleted(array): not os.path.exists(get_main_path(array.id, ...)), the
\* main path being the directory the container file lies in.
main_path_missing(id) == id \notin main_dirs

array_is_deleted(id) ==
    /\ req' = Req("is_deleted", id, primary_attributes(id))
    /\ res' = Res(IF main_path_missing(id) THEN "True" ELSE "False", id)
    /\ UNCHANGED <<main_files, symlinks, main_dirs, symlink_dirs, treeVars, pc>>

\* The target of a link record is removed from outside the adapter, as
\* test_broken_symlink does.
unlink_target(id) ==
    /\ id \in main_files
    /\ main_files' = main_files \ {id}
    /\ req' = Req("unlink_target", id, primary_attributes(id))
    /\ res' = Res("none", 0)
    /\ UNCHANGED <<symlinks, main_dirs, symlink_dirs, treeVars, pc>>

\* ---- create as the sequence of its file-system steps, one call per array
\* id at a time (CreateArrayLock is keyed by the array id).
CreateBegin(id) ==
    /\ pc[id] = "idle"
    /\ PathsCreate(id)
    /\ pc' = [pc EXCEPT ![id] = "check_file"]
    /\ req' = Req("create", id, primary_attributes(id))
    /\ UNCHANGED <<main_files, symlinks, varray_dirs, res>>

CreateCheckFile(id) ==
    /\ pc[id] = "check_file"
    /\ IF check_array_file_existence(id) \/ check_varray_existence(id)
       THEN /\ pc' = [pc EXCEPT ![id] = "idle"]
            /\ res' = Res("DekerArrayError", id)
       ELSE /\ pc' = [pc EXCEPT ![id] = "check_symlink"]
            /\ UNCHANGED res
    /\ UNCHANGED <<main_files, symlinks, main_dirs, symlink_dirs, treeVars, req>>

CreateCheckSymlink(id) ==
    /\ pc[id] = "check_symlink"
    /\ IF check_symlink_existence(id)
       THEN /\ pc' = [pc EXCEPT ![id] = "idle"]
            /\ res' = Res("DekerValidationError", id)
       ELSE /\ pc' = [pc EXCEPT ![id] = "storage_create"]
            /\ UNCHANGED res
    /\ UNCHANGED <<main_files, symlinks, main_dirs, symlink_dirs, treeVars, req>>

CreateStorage(id) ==
    /\ pc[id] = "storage_create"
    /\ main_files' = main_files \cup {id}
    /\ pc' = [pc EXCEPT ![id] = "symlink"]
    /\ UNCHANGED <<symlinks, main_dirs, symlink_dirs, treeVars, req, res>>

CreateSymlink(id) ==
    /\ pc[id] = "symlink"
    /\ symlinks' = symlinks \cup {id}
    /\ pc' = [pc EXCEPT ![id] = "idle"]
    /\ res' = Res("created", id)
    /\ UNCHANGED <<main_files, main_dirs, symlink_dirs, treeVars, req>>

\* ---- delete as the sequence of the file-system steps of _delete.
\* data = symlink.readlink(): a missing symlink ends the call at once.  delete
\* takes no lock, so the call that finds no symlink may run while a create or
\* another delete of the same array is between two of its steps (the array
\* is handed out by get_by_id and by iteration as soon as its file exists).
DeleteReadlink(id) ==
    /\ pc[id] = "idle" \/ id \notin symlinks
    /\ req' = Req("delete", id, primary_attributes(id))
    /\ IF id \notin symlinks
       THEN /\ res' = Res("deleted", id)
            /\ UNCHANGED pc
       ELSE /\ pc' = [pc EXCEPT ![id] = "remove_data"]
            /\ UNCHANGED res
    /\ UNCHANGED <<main_files, symlinks, main_dirs, symlink_dirs, treeVars>>

\* if data.exists(): os.remove(data)
DeleteRemoveData(id) ==
    /\ pc[id] = "remove_data"
    /\ main_files' = main_files \ {id}
    /\ pc' = [pc EXCEPT ![id] = "unlink"]
    /\ UNCHANGED <<symlinks, main_dirs, symlink_dirs, treeVars, req, res>>

\* symlink.unlink(missing_ok=True)
DeleteUnlink(id) ==
    /\ pc[id] = "unlink"
    /\ symlinks' = symlinks \ {id}
    /\ pc' = [pc EXCEPT ![id] = "sweep"]
    /\ UNCHANGED <<main_files, main_dirs, symlink_dirs, treeVars, req, res>>

\* for file in (data, symlink): ... os.rmdir(folder)
DeleteSweep(id) ==
    /\ pc[id] = "sweep"
    /\ Sweep(id, main_files, symlinks)
    /\ pc' = [pc EXCEPT ![id] = "idle"]
    /\ res' = Res("deleted", id)
    /\ UNCHANGED <<main_files, symlinks, varray_dirs, req>>

\* ---- delete_all_by_vid as the steps of its worker pool.

\* A batch that reports success whatever its items did.
BatchOutcomeSwallowed(v, failed) == Res("returned", v)

\* What delete_all_by_vid gives its caller: the exception of an item that
\* failed is raised again, else the call returns.
BatchOutcome(v, failed) ==
    IF failed = {} THEN Res("returned", v) ELSE Res("raised", v)

\* The symlinks _adapter_iter finds under the directory of virtual array v.
AdapterIter(v) == {id \in symlinks : array_vid(id) = v}

\* A call that hands each array to the pool as soon as its meta is read: the
\* arrays that could be read are deleted although a read failed.
delete_all_begin_lazy(v) ==
    /\ batch.phase = "idle"
    /\ LET items == AdapterIter(v)
           unreadable == items \ main_files
       IN  batch' = [phase |-> "delete", vid |-> v, items |-> items,
                     pending |-> items \ unreadable, failed |-> unreadable,
                     result |-> Res("none", 0)]
    /\ UNCHANGED storeVars

\* executor.map(self.read_meta, self._adapter_iter(vid)) and the arrays made
\* from the metas: a symlink whose container is missing makes read_meta
\* raise, the call raises and no delete is dispatched.
delete_all_begin(v) ==
    /\ batch.phase = "idle"
    /\ LET items == AdapterIter(v)
           unreadable == items \ main_files
       IN  batch' = IF unreadable # {}
                    THEN [phase |-> "idle", vid |-> v, items |-> items,
                          pending |-> {}, failed |-> unreadable,
                          result |-> BatchOutcome(v, unreadable)]
                    ELSE [phase |-> "delete", vid |-> v, items |-> items,
                          pending |-> items, failed |-> {},
                          result |-> Res("none", 0)]
    /\ UNCHANGED storeVars

\* A worker takes _delete(array) of one item: array.delete() either raises
\* (the file system refuses os.remove, say), or runs as the steps of _delete.
delete_all_dispatch(id, refused) ==
    /\ batch.phase = "delete"
    /\ id \in batch.pending
    /\ IF refused
       THEN /\ batch' = [batch EXCEPT !.pending = @ \ {id}, !.failed = @ \cup {id}]
            /\ UNCHANGED storeVars
       ELSE /\ batch' = [batch EXCEPT !.pending = @ \ {id}]
            /\ DeleteReadlink(id)

\* list(executor.map(_delete, arrays)) ends: with the exception of a failed
\* item as soon as the results reach it (the items not yet taken are
\* cancelled, the ones running go on), or after every item is done.
delete_all_return ==
    /\ batch.phase = "delete"
    /\ \/ batch.failed # {}
       \/ batch.pending = {} /\ \A id \in batch.items : pc[id] = "idle"
    /\ batch' = [batch EXCEPT !.phase = "idle", !.pending = {},
                              !.result = BatchOutcome(batch.vid, batch.failed)]
    /\ UNCHANGED storeVars

---------------------------------------------------------------------------
\* The two directory trees at the level of their paths: create and delete as
\* the sequences of their file-system calls, for arrays of one virtual array
\* whose ids share their shard directory.  A path is the sequence of its
\* names from the collection directory down; a name is a sequence of text
\* pieces.

\* The name of the directory and of the file of array a, of the directory of
\* its virtual array and of the directory of its position.
id_name(a) == <<"5f2c-", a>>
file_name(a) == <<"5f2c-", a, ".hdf5">>
vid_name == <<"vid">>
position_name(a) == <<"0-", a>>

\* get_paths(array, collection_path): paths.main and paths.symlink.
main_path(a) == <<data_dir, main_dir_name, id_name(a)>>
symlink_path(a) == <<symlinks_dir, vid_name, position_name(a)>>

\* main_filename and sym_filename.
main_filename(a) == Append(main_path(a), file_name(a))
sym_filename(a) == Append(symlink_path(a), file_name(a))

\* Path.parent, Path.exists (the collection directory always exists) and
\* os.listdir.
Parent(p) == SubSeq(p, 1, Len(p) - 1)
Exists(p) == p = <<>> \/ p \in tree
Listdir(p) == {q \in tree : Len(q) = Len(p) + 1 /\ Parent(q) = p}

\* The ancestor of path target that is n names long.
Prefix(target, n) == SubSeq(target, 1, n)

\* A call that ended: its outcome is kept, its position is idle again.
Ended(t, out) == [t EXCEPT !.pc = "idle", !.out = out]

\* ---- create: get_filenames_for_create_methods runs paths.create(), which
\* is path.mkdir(parents=True, exist_ok=True) for paths.main, then for
\* paths.symlink.
path_create_begin(a) ==
    /\ task[a].pc = "idle"
    /\ task' = [task EXCEPT ![a] =
                  [op |-> "create", pc |-> "mkdir", target |-> main_path(a),
                   folder |-> main_path(a), parents |-> TRUE, file |-> 0,
                   out |-> "none"]]
    /\ UNCHANGED tree

\* What follows the mkdir of folder p that returned: the mkdir(parents=False)
\* of the child on the way to the target, the next path of paths.create(), or
\* the checks of create.
AfterMkdir(t, a, p) ==
    IF p # t.target
    THEN [t EXCEPT !.folder = Prefix(t.target, Len(p) + 1), !.parents = FALSE]
    ELSE IF t.target = main_path(a)
    THEN [t EXCEPT !.target = symlink_path(a), !.folder = symlink_path(a),
                   !.parents = TRUE]
    ELSE [t EXCEPT !.pc = "check_file"]

\* One os.mkdir of Path.mkdir: FileExistsError is passed over (exist_ok);
\* FileNotFoundError (the parent is missing) makes the parents first when
\* parents=True, and is raised when the call is the one that follows the
\* making of the parents.
path_mkdir(a) ==
    LET t == task[a]
        p == t.folder
    IN  /\ t.pc = "mkdir"
        /\ IF Exists(p)
           THEN /\ task' = [task EXCEPT ![a] = AfterMkdir(t, a, p)]
                /\ UNCHANGED tree
           ELSE IF Exists(Parent(p))
           THEN /\ tree' = tree \cup {p}
                /\ task' = [task EXCEPT ![a] = AfterMkdir(t, a, p)]
           ELSE /\ task' = [task EXCEPT ![a] =
                              IF t.parents
                              THEN [t EXCEPT !.folder = Parent(p)]
                              ELSE Ended(t, "FileNotFoundError")]
                /\ UNCHANGED tree

\* check_array_file_existence(main_filename)
path_check_file(a) ==
    /\ task[a].pc = "check_file"
    /\ task' = [task EXCEPT ![a] =
                  IF Exists(main_filename(a))
                  THEN Ended(@, "DekerArrayError")
                  ELSE [@ EXCEPT !.pc = "check_symlink"]]
    /\ UNCHANGED tree

\* check_symlink_existence(sym_filename): is_empty(file.parent)
path_check_symlink(a) ==
    /\ task[a].pc = "check_symlink"
    /\ task' = [task EXCEPT ![a] =
                  IF Listdir(symlink_path(a)) # {}
                  THEN Ended(@, "DekerValidationError")
                  ELSE [@ EXCEPT !.pc = "storage_create"]]
    /\ UNCHANGED tree

\* storage_adapter.create(main_filename, ...): h5py.File(path, "w") needs the
\* directory of the file.
path_storage_create(a) ==
    /\ task[a].pc = "storage_create"
    /\ IF Exists(main_path(a))
       THEN /\ tree' = tree \cup {main_filename(a)}
            /\ task' = [task EXCEPT ![a].pc = "symlink"]
       ELSE /\ task' = [task EXCEPT ![a] = Ended(@, "FileNotFoundError")]
            /\ UNCHANGED tree

\* os.symlink(main_filename, sym_filename)
path_symlink(a) ==
    /\ task[a].pc = "symlink"
    /\ IF Exists(symlink_path(a))
       THEN /\ tree' = tree \cup {sym_filename(a)}
            /\ task' = [task EXCEPT ![a] = Ended(@, "created")]
       ELSE /\ task' = [task EXCEPT ![a] = Ended(@, "FileNotFoundError")]
            /\ UNCHANGED tree

\* ---- delete: the file-system calls of _delete.

\* The file of the turn of `for file in (data, symlink)`.
SweptFile(a, n) == IF n = 1 THEN main_filename(a) ELSE sym_filename(a)

\* The sweep of one file is over (break, or its parent is missing): the
\* symlink follows the data file, and _delete returns after the symlink.
NextFile(t) ==
    IF t.file = 1 THEN [t EXCEPT !.file = 2, !.pc = "parent_exists"]
    ELSE Ended(t, "deleted")

\* data = symlink.readlink(): FileNotFoundError ends _delete, swallowed.
path_readlink(a) ==
    /\ task[a].pc = "idle"
    /\ task' = [task EXCEPT ![a] =
                  IF Exists(sym_filename(a))
                  THEN [op |-> "delete", pc |-> "remove", target |-> <<>>,
                        folder |-> <<>>, parents |-> FALSE, file |-> 1,
                        out |-> "none"]
                  ELSE [op |-> "delete", pc |-> "idle", target |-> <<>>,
                        folder |-> <<>>, parents |-> FALSE, file |-> 0,
                        out |-> "deleted"]]
    /\ UNCHANGED tree

\* if data.exists(): os.remove(data)
path_remove(a) ==
    /\ task[a].pc = "remove"
    /\ tree' = tree \ {main_filename(a)}
    /\ task' = [task EXCEPT ![a].pc = "unlink"]

\* symlink.unlink(missing_ok=True)
path_unlink(a) ==
    /\ task[a].pc = "unlink"
    /\ tree' = tree \ {sym_filename(a)}
    /\ task' = [task EXCEPT ![a].pc = "parent_exists"]

\* if file.parent.exists(): the sweep starts at the parent of the file.
path_parent_exists(a) ==
    LET t == task[a]
        parent == Parent(SweptFile(a, t.file))
    IN  /\ t.pc = "parent_exists"
        /\ task' = [task EXCEPT ![a] =
                      IF Exists(parent)
                      THEN [t EXCEPT !.folder = parent, !.pc = "listdir"]
                      ELSE NextFile(t)]
        /\ UNCHANGED tree

\* subs = os.listdir(folder), and the test that breaks the loop: a folder
\* that is missing raises FileNotFoundError, which ends _delete, swallowed.
path_listdir(a) ==
    LET t == task[a]
    IN  /\ t.pc = "listdir"
        /\ task' = [task EXCEPT ![a] =
                      IF ~Exists(t.folder) THEN Ended(t, "deleted")
                      ELSE IF \/ Listdir(t.folder) # {}
                              \/ EndsWithRoot(t.folder[Len(t.folder)])
                      THEN NextFile(t)
                      ELSE [t EXCEPT !.pc = "folder_exists"]]
        /\ UNCHANGED tree

\* if folder.exists(): a folder that is missing is passed over and the loop
\* goes on with its parent.
path_folder_exists(a) ==
    LET t == task[a]
    IN  /\ t.pc = "folder_exists"
        /\ task' = [task EXCEPT ![a] =
                      IF Exists(t.folder) THEN [t EXCEPT !.pc = "rmdir"]
                      ELSE [t EXCEPT !.folder = Parent(t.folder),
                                     !.pc = "listdir"]]
        /\ UNCHANGED tree

\* An rmdir that removes the folder with what it holds.
RmdirOutcomeForced(p) == "removed"

\* os.rmdir(folder): FileNotFoundError for a folder that is missing, OSError
\* (directory not empty) for a folder with entries.
RmdirOutcome(p) ==
    IF ~Exists(p) THEN "FileNotFoundError"
    ELSE IF Listdir(p) # {} THEN "OSError"
    ELSE "removed"

\* os.rmdir(folder) in _delete: FileNotFoundError ends _delete, swallowed;
\* OSError leaves _delete and delete raises it.
path_rmdir(a) ==
    LET t == task[a]
        outcome == RmdirOutcome(t.folder)
    IN  /\ t.pc = "rmdir"
        /\ IF outcome = "removed"
           THEN /\ tree' = tree \ {t.folder}
                /\ task' = [task EXCEPT ![a] =
                              [t EXCEPT !.folder = Parent(t.folder),
                                        !.pc = "listdir"]]
           ELSE /\ task' = [task EXCEPT ![a] =
                              Ended(t, IF outcome = "OSError" THEN "OSError"
                                       ELSE "deleted")]
                /\ UNCHANGED tree

---------------------------------------------------------------------------
\* The collection registry: LocalCollectionAdapter.

\* The collection names explored.
Names == {"a", "b"}

\* np.dtype(float).itemsize, the element size of schema.dtype
ItemSize == 8

\* ctx.config.memory_limit, in bytes: room for three cells.
MemoryLimit == 24

\* The schemas explored: array schemas, which have a shape, of 2 and of 4
\* cells, and a virtual-array schema of 4 cells cut into arrays of 2 cells
\* (it alone has arrays_shape).
Schemas == {[shape |-> 2], [shape |-> 4], [shape |-> 4, arrays_shape |-> 2]}

\* The Collection objects handed to the adapter.
Collections == {[name |-> n, schema |-> sch] : n \in Names, sch \in Schemas}

CReq(op, name, collection) == [op |-> op, name |-> name, collection |-> collection]
CRes(kind, value) == [kind |-> kind, value |-> value]

\* schema.arrays_shape if hasattr(schema, "arrays_shape") else schema.shape
schema_shape(schema) ==
    IF "arrays_shape" \in DOMAIN schema THEN schema.arrays_shape ELSE schema.shape

\* A memory check that lets every shape pass.
check_memory_passes(shp) == FALSE

\* check_memory(shape, dtype, limit) raises DekerMemoryError when the array of
\* that shape takes more bytes than the limit.
check_memory(shp) == shp * ItemSize > MemoryLimit

\* collection.as_dict
as_dict(collection) == [name |-> collection.name, schema |-> collection.schema]

\* json.dumps(data): the text of the document.
json_dumps(d) == <<"json", d>>

\* json.loads(text)
json_loads(text) == text[2]

\* Names of files and directories are sequences of text pieces.
doc_name(name) == <<name, ".json">>
array_data_directory == <<"array_data">>
array_symlinks_directory == <<"array_symlinks">>

\* The paths an array adapter makes below a collection directory: the two
\* root directories and, in the data tree, a container file.
Dir(path) == [path |-> path, isdir |-> TRUE]
File(path) == [path |-> path, isdir |-> FALSE]
ArrayDirs == {Dir(<<array_data_directory>>), Dir(<<array_symlinks_directory>>)}
ArrayFile == File(<<array_data_directory, <<"1", ".hdf5">>>>)

\* The registry after construction: collections_resource exists and is empty.
RegistryIdle ==
    /\ coll_dirs = {}
    /\ coll_docs = [n \in Names |-> None]
    /\ coll_tree = [n \in Names |-> {}]
    /\ coll_locks = {}
    /\ coll_creating = [n \in Names |-> None]
    /\ creq = CReq("none", "", None)
    /\ cres = CRes("none", None)

\* @CollectionLock(): the lock file <name>.lock may be left beside the
\* collection directories.
CollectionLock(name) ==
    \E left \in BOOLEAN :
        coll_locks' = IF left THEN coll_locks \cup {name} ELSE coll_locks

\* A create that overwrites an existing collection.
coll_create_overwriting(collection) ==
    /\ creq' = CReq("create", collection.name, collection)
    /\ CollectionLock(collection.name)
    /\ IF check_memory(schema_shape(collection.schema))
       THEN /\ cres' = CRes("DekerMemoryError", None)
            /\ UNCHANGED <<coll_dirs, coll_docs, coll_tree>>
       ELSE /\ coll_dirs' = coll_dirs \cup {collection.name}
            /\ coll_docs' = [coll_docs EXCEPT
                                ![collection.name] = json_dumps(as_dict(collection))]
            /\ UNCHANGED coll_tree
            /\ cres' = CRes("created", None)

\* create(collection): the memory check, then __create_path (os.makedirs
\* raises FileExistsError for an existing directory), then __create writes
\* the metadata document.
coll_create(collection) ==
    /\ creq' = CReq("create", collection.name, collection)
    /\ CollectionLock(collection.name)
    /\ IF check_memory(schema_shape(collection.schema))
       THEN /\ cres' = CRes("DekerMemoryError", None)
            /\ UNCHANGED <<coll_dirs, coll_docs, coll_tree>>
       ELSE IF collection.name \in coll_dirs
       THEN /\ cres' = CRes("DekerCollectionAlreadyExistsError", None)
            /\ UNCHANGED <<coll_dirs, coll_docs, coll_tree>>
       ELSE /\ coll_dirs' = coll_dirs \cup {collection.name}
            /\ coll_docs' = [coll_docs EXCEPT
                                ![collection.name] = json_dumps(as_dict(collection))]
            /\ UNCHANGED coll_tree
            /\ cres' = CRes("created", None)

\* The name of the directory of a collection, as os.scandir gives it.
dir_name(name) == <<name>>

\* A read that answers for every directory, with or without document.
ReadOutcomeOfDirectory(entry_name) ==
    IF \E n \in coll_dirs : entry_name = dir_name(n)
    THEN CRes("metadata", IF coll_docs[entry_name[1]] # None
                         THEN json_loads(coll_docs[entry_name[1]]) ELSE None)
    ELSE CRes("DekerCollectionNotExistsError", None)

\* What read gives for a name: the parsed document when the directory of
\* that name holds <name>.json, else DekerCollectionNotExistsError.
ReadOutcome(entry_name) ==
    IF \E n \in coll_dirs : entry_name = dir_name(n) /\ coll_docs[n] # None
    THEN CRes("metadata", json_loads(coll_docs[entry_name[1]]))
    ELSE CRes("DekerCollectionNotExistsError", None)

\* read(name)
coll_read(name) ==
    /\ creq' = CReq("read", name, None)
    /\ cres' = ReadOutcome(dir_name(name))
    /\ UNCHANGED <<coll_dirs, coll_docs, coll_tree, coll_locks>>

\* A delete that leaves the lock file.
LocksAfterDeleteKept(name) == coll_locks

\* Path.unlink(<name>.lock, missing_ok=True)
LocksAfterDelete(name) == coll_locks \ {name}

\* delete(collection): shutil.rmtree of the directory (a missing directory is
\* passed over: onerror only builds an exception), then the lock file.
coll_delete(collection) ==
    /\ creq' = CReq("delete", collection.name, collection)
    /\ coll_dirs' = coll_dirs \ {collection.name}
    /\ coll_docs' = [coll_docs EXCEPT ![collection.name] = None]
    /\ coll_tree' = [coll_tree EXCEPT ![collection.name] = {}]
    /\ coll_locks' = LocksAfterDelete(collection.name)
    /\ cres' = CRes("deleted", [tree |-> coll_tree[collection.name],
                                lock |-> collection.name \in coll_locks])

\* A clear that keeps no file.
ClearKeepsNothing(name, f) == FALSE

\* clear: save = (f == collection.name + self.file_ext)
ClearKeeps(name, f) == f = doc_name(name)

\* clear(collection): os.walk from the collection directory, top down. Of
\* the files of the directory itself all but <name>.json are removed, and
\* every sub-directory is removed with all it holds, so that the walk finds
\* nothing further down. A missing directory is walked as an empty one.
coll_clear(collection) ==
    LET name == collection.name
        top_files == {e.path[1] : e \in {x \in coll_tree[name] :
                                            ~x.isdir /\ Len(x.path) = 1}}
                     \cup (IF coll_docs[name] # None THEN {doc_name(name)} ELSE {})
        kept == {f \in top_files : ClearKeeps(name, f)}
    IN  /\ creq' = CReq("clear", name, collection)
        /\ CollectionLock(name)
        /\ IF name \in coll_dirs
           THEN /\ coll_docs' = [coll_docs EXCEPT ![name] =
                                    IF doc_name(name) \in kept THEN @ ELSE None]
                /\ coll_tree' = [coll_tree EXCEPT ![name] =
                                    {File(<<f>>) : f \in kept \ {doc_name(name)}}]
           ELSE UNCHANGED <<coll_docs, coll_tree>>
        /\ cres' = CRes("cleared", coll_tree[name] \ coll_tree'[name])
        /\ UNCHANGED coll_dirs

\* not collection.path.exists()
is_deleted(name) == name \notin coll_dirs

\* is_deleted(collection)
coll_is_deleted(collection) ==
    /\ creq' = CReq("is_deleted", collection.name, collection)
    /\ cres' = CRes("bool", is_deleted(collection.name))
    /\ UNCHANGED <<coll_dirs, coll_docs, coll_tree, coll_locks>>

\* ---- create as its two file-system steps.  CollectionLock lets one create
\* of a collection run at a time; __iter__, read and delete take no lock.

\* check_memory, then __create_path: os.makedirs(path).
coll_create_path(collection) ==
    /\ coll_creating[collection.name] = None
    /\ creq' = CReq("create", collection.name, collection)
    /\ CollectionLock(collection.name)
    /\ IF check_memory(schema_shape(collection.schema))
       THEN /\ cres' = CRes("DekerMemoryError", None)
            /\ UNCHANGED <<coll_dirs, coll_creating>>
       ELSE IF collection.name \in coll_dirs
       THEN /\ cres' = CRes("DekerCollectionAlreadyExistsError", None)
            /\ UNCHANGED <<coll_dirs, coll_creating>>
       ELSE /\ coll_dirs' = coll_dirs \cup {collection.name}
            /\ coll_creating' = [coll_creating EXCEPT
                                    ![collection.name] = <<collection>>]
            /\ cres' = CRes("none", None)
    /\ UNCHANGED <<coll_docs, coll_tree>>

\* __create: if coll_path.exists(), the document is written.
coll_create_document(name) ==
    /\ coll_creating[name] # None
    /\ creq' = CReq("create", name, coll_creating[name][1])
    /\ coll_docs' = IF name \in coll_dirs
                    THEN [coll_docs EXCEPT
                            ![name] = json_dumps(as_dict(coll_creating[name][1]))]
                    ELSE coll_docs
    /\ coll_creating' = [coll_creating EXCEPT ![name] = None]
    /\ cres' = CRes("created", None)
    /\ UNCHANGED <<coll_dirs, coll_tree, coll_locks>>

\* os.scandir(self.collections_resource): the collection directories and the
\* lock files.
ScanDir ==
    {[name |-> dir_name(n), isdir |-> TRUE] : n \in coll_dirs}
    \cup {[name |-> <<n, ".lock">>, isdir |-> FALSE] : n \in coll_locks}

\* An iteration that reads every entry, directory or not.
IterEntriesAll == ScanDir

\* __iter__: if os.path.isdir(directory)
IterEntries == {e \in ScanDir : e.isdir}

\* __iter__: read(directory.name) of every directory; the read that finds no
\* document raises DekerCollectionNotExistsError.
coll_iter ==
    /\ creq' = CReq("iter", "", None)
    /\ cres' = IF \E e \in IterEntries :
                     ReadOutcome(e.name).kind = "DekerCollectionNotExistsError"
               THEN CRes("DekerCollectionNotExistsError", None)
               ELSE CRes("metadatas", {ReadOutcome(e.name).value : e \in IterEntries})
    /\ UNCHANGED <<coll_dirs, coll_docs, coll_tree, coll_locks>>

\* An array adapter of the collection at work, as far as the registry sees
\* it. paths.create() makes the root directories of the array store, and the
\* collection directory with them when it is missing.
array_paths_create(name) ==
    /\ creq' = CReq("array_paths_create", name, None)
    /\ cres' = CRes("none", None)
    /\ coll_dirs' = coll_dirs \cup {name}
    /\ coll_tree' = [coll_tree EXCEPT ![name] = @ \cup ArrayDirs]
    /\ UNCHANGED <<coll_docs, coll_locks>>

\* storage_adapter.create writes a container file into the data tree.
array_storage_create(name) ==
    /\ Dir(<<array_data_directory>>) \in coll_tree[name]
    /\ creq' = CReq("array_storage_create", name, None)
    /\ cres' = CRes("none", None)
    /\ coll_tree' = [coll_tree EXCEPT ![name] = @ \cup {ArrayFile}]
    /\ UNCHANGED <<coll_dirs, coll_docs, coll_locks>>

---------------------------------------------------------------------------
\* Storage options: HDF5Options and HDF5CompressionOpts.

\* bool(v)
truthy(v) ==
    CASE v = PyNone -> FALSE
      [] IsInt(v) -> v[2] # 0
      [] IsSequence(v) -> v[2] # <<>>
      [] v = PyStr("") -> FALSE
      [] OTHER -> TRUE

\* str(v) of an int or a str
py_str(v) == IF IsInt(v) THEN PyNumStr(v[2]) ELSE v

\* int(v) of an int or a str: a str that is no decimal text raises ValueError
py_int(v) ==
    IF IsInt(v) \/ v[1] = "numstr" THEN PyInt(v[2]) ELSE Raised("ValueError")

\* The fields of the two dataclasses.
Compression(c) == c[2]
CompressionOpts(c) == c[3]
Chunks(o) == o[2]
CompressionOf(o) == o[3]

\* HDF5CompressionOpts(compression, compression_opts) with __post_init__: the
\* validation, a list made a tuple, an empty or zero value made None.
HDF5CompressionOpts(compression, compression_opts) ==
    LET as_tuple == IF compression_opts[1] = "list"
                    THEN PyTuple(compression_opts[2]) ELSE compression_opts
        opts == IF truthy(as_tuple) THEN as_tuple ELSE PyNone
    IN  IF compression # PyNone /\ ~(IsStr(compression) \/ IsInt(compression))
        THEN Raised("DekerValidationError")
        ELSE IF compression = PyStr("")
        THEN Raised("DekerValidationError")
        ELSE IF IsInt(compression) /\ compression[2] < 0
        THEN Raised("DekerValidationError")
        ELSE IF compression_opts = PyNone
        THEN <<"HDF5CompressionOpts", compression, PyNone>>
        ELSE IF compression = PyNone
        THEN Raised("DekerValidationError")
        ELSE IF ~(IsSequence(compression_opts) \/ IsInt(compression_opts))
        THEN Raised("DekerValidationError")
        ELSE IF IsInt(opts) /\ opts[2] < 0
        THEN Raised("DekerValidationError")
        ELSE <<"HDF5CompressionOpts", compression, opts>>

\* HDF5Options(chunks, compression_opts) with __post_init__.
HDF5Options(chunks, compression_opts) ==
    LET as_tuple == IF chunks[1] = "list" THEN PyTuple(chunks[2]) ELSE chunks
    IN  IF chunks # PyNone /\ ~(chunks = PyTrue \/ IsSequence(chunks))
        THEN Raised("DekerValidationError")
        ELSE IF IsSequence(as_tuple)
                /\ (as_tuple[2] = <<>>
                    \/ \E i \in DOMAIN as_tuple[2] : ~IsInt(as_tuple[2][i]))
        THEN Raised("DekerValidationError")
        ELSE IF compression_opts = PyNone
        THEN <<"HDF5Options", as_tuple, HDF5CompressionOpts(PyNone, PyNone)>>
        ELSE IF compression_opts[1] # "HDF5CompressionOpts"
        THEN Raised("DekerValidationError")
        ELSE <<"HDF5Options", as_tuple, compression_opts>>

\* HDF5Options.as_dict
options_as_dict(o) ==
    LET c == CompressionOf(o)
        opts == CompressionOpts(c)
        items == IF IsSequence(opts) THEN opts[2] ELSE <<opts>>
        options == IF Compression(c) = PyNone THEN PyTuple(<<>>)
                   ELSE IF opts # PyNone
                   THEN PyTuple([i \in DOMAIN items |-> py_str(items[i])])
                   ELSE PyNone
        compression == IF Compression(c) = PyNone
                       THEN PyStr("none") ELSE py_str(Compression(c))
        chunks == IF IsSequence(Chunks(o))
                  THEN [mode |-> PyStr("manual"), size |-> Chunks(o)]
                  ELSE IF truthy(Chunks(o))
                  THEN [mode |-> PyStr("true")]
                  ELSE [mode |-> PyStr("none")]
    IN  [chunks |-> chunks,
         compression |-> [compression |-> compression, options |-> options]]

\* _process_options, the branch of the "compression" key: the keyword
\* arguments of HDF5CompressionOpts, or the exception raised.
process_compression(dic) ==
    LET compression_type == dic.compression
        given == dic.options
        compression_options ==
            IF truthy(given)
            THEN PyList([i \in DOMAIN given[2] |->
                          IF IsRaised(py_int(given[2][i]))
                          THEN given[2][i] ELSE py_int(given[2][i])])
            ELSE PyNone
    IN  IF ~truthy(compression_type)
        THEN <<"kwargs", compression_type, PyNone>>
        ELSE IF compression_type = PyStr("none")
        THEN <<"kwargs", PyNone, PyNone>>
        ELSE IF compression_type = PyStr("gzip")
        THEN <<"kwargs", compression_type,
               IF truthy(compression_options)
               THEN compression_options[2][1] ELSE compression_options>>
        ELSE IF compression_type = PyStr("szip")
        THEN <<"kwargs", compression_type,
               IF truthy(compression_options)
               THEN PyTuple(compression_options[2]) ELSE compression_options>>
        ELSE IF compression_type = PyStr("lzf")
        THEN IF truthy(compression_options)
             THEN Raised("ValueError")
             ELSE <<"kwargs", compression_type, compression_options>>
        ELSE IF IsRaised(py_int(compression_type))
        THEN Raised("ValueError")
        ELSE <<"kwargs", py_int(compression_type), compression_options>>

\* _process_options, the branch of the "chunks" key.
process_chunks(dic) ==
    LET mode == dic.mode
    IN  IF mode = PyStr("manual") THEN dic.size
        ELSE IF mode = PyStr("true") THEN PyTrue
        ELSE PyNone

\* _process_options(storage_options): the keyword arguments of HDF5Options,
\* or the exception raised.
process_options(storage_options) ==
    LET kwargs == process_compression(storage_options.compression)
        compression_opts ==
            IF IsRaised(kwargs) THEN kwargs
            ELSE HDF5CompressionOpts(kwargs[2], kwargs[3])
    IN  IF IsRaised(compression_opts) THEN compression_opts
        ELSE <<"kwargs", process_chunks(storage_options.chunks), compression_opts>>

\* The arguments explored: chunks none, automatic, a tuple and a list of
\* sizes; the filter none, the builtin names, another name and a filter id;
\* the filter options none, a level, and sequences.
ChunksArgs == {PyNone, PyTrue, PyTuple(<<PyInt(2)>>), PyList(<<PyInt(1), PyInt(3)>>)}
CompressionArgs ==
    {PyNone, PyStr("gzip"), PyStr("szip"), PyStr("lzf"), PyStr("blosc"), PyInt(32001)}
CompressionOptsArgs ==
    {PyNone, PyInt(9), PyTuple(<<PyInt(9)>>), PyList(<<PyInt(4), PyInt(5)>>),
     PyTuple(<<PyStr("nn"), PyInt(8)>>)}
OptionsArgs ==
    [chunks : ChunksArgs, compression : CompressionArgs,
     compression_opts : CompressionOptsArgs]

\* No options are being converted.
OptionsIdle ==
    /\ o_pc = "idle"
    /\ o_args = PyNone
    /\ o_options = PyNone
    /\ o_dict = PyNone
    /\ o_kwargs = PyNone
    /\ o_back = PyNone

\* options = HDF5Options(chunks, HDF5CompressionOpts(compression, compression_opts))
construct_options ==
    /\ o_pc = "args"
    /\ LET c == HDF5CompressionOpts(o_args.compression, o_args.compression_opts)
       IN  o_options' = IF IsRaised(c) THEN c ELSE HDF5Options(o_args.chunks, c)
    /\ o_pc' = IF IsRaised(o_options') THEN "invalid" ELSE "options"
    /\ UNCHANGED <<o_args, o_dict, o_kwargs, o_back>>

\* options.as_dict, the "options" entry of the collection metadata document
export_options ==
    /\ o_pc = "options"
    /\ o_dict' = options_as_dict(o_options)
    /\ o_pc' = "dict"
    /\ UNCHANGED <<o_args, o_options, o_kwargs, o_back>>

\* HDF5Options._process_options(document["options"])
import_options ==
    /\ o_pc = "dict"
    /\ o_kwargs' = process_options(o_dict)
    /\ o_pc' = "kwargs"
    /\ UNCHANGED <<o_args, o_options, o_dict, o_back>>

\* HDF5Options(**kwargs), when _process_options raised nothing
rebuild_options ==
    /\ o_pc = "kwargs"
    /\ o_back' = IF IsRaised(o_kwargs) THEN o_kwargs
                 ELSE HDF5Options(o_kwargs[2], o_kwargs[3])
    /\ o_pc' = "done"
    /\ UNCHANGED <<o_args, o_options, o_dict, o_kwargs>>

---------------------------------------------------------------------------
\* The metadata of a container, the array adapter over the container of one
\* array (LocalArrayAdapter with HDF5StorageAdapter), and the document of a
\* virtual array (LocalVArrayAdapter).

\* str(v), the default= of json.dumps, applied to a value JSON has no form
\* for: the text of a datetime.
json_default(v) == IF v[1] = "datetime" THEN PyStr("2023-01-01 00:00:00") ELSE v

\* json.dumps(meta, default=str): a key that is no str raises TypeError
\* (default= is not applied to keys); else the text, in which a value JSON
\* has no form for is replaced by its str.
json_dumps_default(m) ==
    LET attributes == m.custom_attributes
    IN  IF ~IsStr(attributes[2]) THEN Raised("TypeError")
        ELSE <<"json", [m EXCEPT !.custom_attributes =
                           PyDict(attributes[2], json_default(attributes[3]))]>>

\* meta = json.loads(...); meta["custom_attributes"] = attributes
WithCustomAttributes(text, attributes) ==
    [json_loads(text) EXCEPT !.custom_attributes = attributes]

\* A call c ends with the exception e and nothing written.
raises(c, e) ==
    /\ call' = c
    /\ ret' = Raised(e)
    /\ pre' = Pre
    /\ UNCHANGED <<shape, fill_value, data, empty_cells, meta, vdoc>>

\* A read_meta that takes a missing slot for empty metadata.
read_meta_or_empty ==
    /\ ret' = IF meta = None THEN None ELSE json_loads(meta)
    /\ call' = Call("read_meta", 0, 0, None)
    /\ pre' = Pre
    /\ UNCHANGED <<shape, fill_value, data, empty_cells, meta, vdoc>>

\* HDF5StorageAdapter.read_meta: DekerArrayError when the slot is missing.
read_meta ==
    /\ ret' = IF meta = None THEN Raised("DekerArrayError") ELSE json_loads(meta)
    /\ call' = Call("read_meta", 0, 0, None)
    /\ pre' = Pre
    /\ UNCHANGED <<shape, fill_value, data, empty_cells, meta, vdoc>>

\* HDF5StorageAdapter.update_meta_custom_attributes: the slot is deleted and
\* the file flushed before the new document is encoded, so an encoding that
\* raises leaves the container without a slot.
update_meta_custom_attributes(attributes) ==
    LET json_meta == json_dumps_default(WithCustomAttributes(meta, attributes))
    IN  /\ IF meta = None
           THEN /\ ret' = Raised("DekerArrayError")
                /\ UNCHANGED meta
           ELSE IF IsRaised(json_meta)
           THEN /\ ret' = json_meta
                /\ meta' = None
           ELSE /\ ret' = attributes
                /\ meta' = json_meta
        /\ call' = Call("update_meta_custom_attributes", 0, 0, attributes)
        /\ pre' = Pre
        /\ UNCHANGED <<shape, fill_value, data, empty_cells, vdoc>>

\* The array whose container this is (one that is part of no virtual array),
\* and the virtual array whose document vdoc is.
TheArray == CHOOSE id \in Ids : array_vid(id) = 0
TheVArray == CHOOSE v \in Vids : TRUE

\* h5py.File(path, "r" or "r+") finds the file.
file_exists == TheArray \in main_files

\* The custom attributes given to an update: an int, a datetime, and a dict
\* whose key is a tuple.
CustomAttributes ==
    {PyDict(PyStr("ca"), PyInt(1)), PyDict(PyStr("ca"), PyDatetime(1)),
     PyDict(PyTuple(<<PyInt(1)>>), PyInt(1))}

\* LocalArrayAdapter.read_data
array_read_data(lo, hi) ==
    IF file_exists THEN read_data(lo, hi)
    ELSE raises(Call("read_data", lo, hi, None), "FileNotFoundError")

\* LocalArrayAdapter.read_meta
array_read_meta ==
    IF file_exists THEN read_meta
    ELSE raises(Call("read_meta", 0, 0, None), "FileNotFoundError")

\* An update that hands its payload to the storage adapter unchecked.
array_update_unchecked(lo, hi, payload) ==
    IF file_exists THEN update_data(lo, hi, payload)
    ELSE raises(Call("update", lo, hi, payload), "FileNotFoundError")

\* LocalArrayAdapter.update: a None payload raises ValueError before the
\* file is opened.
array_update(lo, hi, payload) ==
    IF payload = None THEN raises(Call("update", lo, hi, payload), "ValueError")
    ELSE IF file_exists THEN update_data(lo, hi, payload)
    ELSE raises(Call("update", lo, hi, payload), "FileNotFoundError")

\* LocalArrayAdapter.update_meta_custom_attributes
array_update_meta_custom_attributes(attributes) ==
    IF file_exists THEN update_meta_custom_attributes(attributes)
    ELSE raises(Call("update_meta_custom_attributes", 0, 0, attributes),
                "FileNotFoundError")

\* LocalArrayAdapter.clear
array_clear(lo, hi) ==
    IF file_exists THEN clear_data(lo, hi)
    ELSE raises(Call("clear_data", lo, hi, None), "FileNotFoundError")

\* The container file is gone: none of its datasets is left.
NoContainer ==
    /\ data' = None
    /\ empty_cells' = 0
    /\ meta' = None
    /\ UNCHANGED <<shape, fill_value, call, pre, ret, vdoc>>

\* LocalArrayAdapter.create of the array: the checks, then the container
\* (HDF5StorageAdapter.create), then the symlink.
adapter_create ==
    /\ array_create(TheArray)
    /\ IF res'.kind = "created" THEN create
       ELSE raises(Call("array_create", 0, 0, None), res'.kind)

\* LocalArrayAdapter.delete of the array.
adapter_delete ==
    /\ array_delete(TheArray)
    /\ IF TheArray \in symlinks THEN NoContainer ELSE UNCHANGED containerVars

\* HDF5StorageAdapter.create called on the path of the array: h5py.File in
\* "w" mode makes the file or truncates it, and raises when the directory of
\* the path is missing.
storage_create ==
    IF TheArray \in main_dirs
    THEN /\ create
         /\ main_files' = main_files \cup {TheArray}
         /\ UNCHANGED <<symlinks, main_dirs, symlink_dirs, treeVars, req, res, pc>>
    ELSE /\ raises(Call("create", 0, 0, None), "FileNotFoundError")
         /\ UNCHANGED storeVars

\* LocalVArrayAdapter.create of the virtual array: its document is written.
varray_document_create ==
    /\ varray_create(TheVArray)
    /\ vdoc' = CreatedMeta
    /\ UNCHANGED <<shape, fill_value, data, empty_cells, call, pre, ret, meta>>

\* LocalVArrayAdapter.read_meta: whatever open or json.loads raises becomes a
\* DekerArrayError.
varray_read_meta ==
    /\ ret' = IF vdoc = None THEN Raised("DekerArrayError") ELSE json_loads(vdoc)
    /\ call' = Call("varray_read_meta", 0, 0, None)
    /\ pre' = Pre
    /\ UNCHANGED <<shape, fill_value, data, empty_cells, meta, vdoc>>

\* LocalVArrayAdapter.update_meta_custom_attributes: the new document is
\* encoded before the file is opened for writing.
varray_update_meta_custom_attributes(attributes) ==
    LET json_meta == json_dumps_default(WithCustomAttributes(vdoc, attributes))
    IN  /\ IF vdoc = None
           THEN /\ ret' = Raised("FileNotFoundError")
                /\ UNCHANGED vdoc
           ELSE IF IsRaised(json_meta)
           THEN /\ ret' = json_meta
                /\ UNCHANGED vdoc
           ELSE /\ ret' = None
                /\ vdoc' = json_meta
        /\ call' = Call("varray_update_meta_custom_attributes", 0, 0, attributes)
        /\ pre' = Pre
        /\ UNCHANGED <<shape, fill_value, data, empty_cells, meta>>

---------------------------------------------------------------------------
\* Specifications of the container.

\* A new array's container; the store is not touched.
InitContainer == ContainerInit /\ StoreIdle /\ RegistryIdle /\ OptionsIdle

\* The adapter hands a call to the storage adapter when no call is being
\* reported; call, pre and ret then describe that call until it is handed
\* back to the caller.
Returned == call.op = "returned"

Create == Returned /\ create /\ UNCHANGED notContainer

Read ==
    /\ Returned
    /\ \E b \in Bounds(shape) : read_data(b[1], b[2])
    /\ UNCHANGED notContainer

Update ==
    /\ Returned
    /\ \E b \in Bounds(shape) :
          \E block \in Blocks(create_shape_from_slice(b[1], b[2])) :
              update_data(b[1], b[2], block)
    /\ UNCHANGED notContainer

Clear ==
    /\ Returned
    /\ \E b \in Bounds(shape) : clear_data(b[1], b[2])
    /\ UNCHANGED notContainer

\* The call returns: its record is dropped, the container stays as it is.
Return ==
    /\ ~Returned
    /\ call' = Call("returned", 0, 0, None)
    /\ pre' = [data |-> None, empty_cells |-> 0]
    /\ ret' = None
    /\ UNCHANGED <<shape, fill_value, data, empty_cells, meta, vdoc>>
    /\ UNCHANGED notContainer

NextContainer == Create \/ Read \/ Update \/ Clear \/ Return

\* One array's container under create, read_data, update_data and clear_data.
SpecContainer == InitContainer /\ [][NextContainer]_vars


\* Updates that write only non-fill values into cells never written before:
\* in such a run the cells written so far are exactly the cells that do not
\* read as the fill value.
NonOverlappingUpdate ==
    /\ Returned
    /\ \E b \in Bounds(shape) :
          \E block \in Blocks(create_shape_from_slice(b[1], b[2])) :
              /\ \A i \in DOMAIN block : ~IsFill(block[i], fill_value)
              /\ LET before == ReadBlock(data, shape, b[1], b[2], fill_value)
                 IN  \A i \in DOMAIN before : IsFill(before[i], fill_value)
              /\ update_data(b[1], b[2], block)
    /\ UNCHANGED notContainer

NextFreshWrites == NonOverlappingUpdate \/ Return

\* A freshly created array under non-overlapping updates of non-fill values.
SpecFreshWrites == InitContainer /\ [][NextFreshWrites]_vars

---------------------------------------------------------------------------
\* Properties of the container.

TotalCells == calculate_total_cells_in_array(shape)

\* Every cell of a block is the fill value.
AllFill(block) == \A i \in DOMAIN block : IsFill(block[i], fill_value)

\* What read_data returns now for the bounds lo..hi.
ReadNow(lo, hi) == ReadBlock(data, shape, lo, hi, fill_value)

\* What read_data returned for lo..hi when the last call started.
ReadBefore(lo, hi) == ReadBlock(pre.data, shape, lo, hi, fill_value)

\* The cells that currently hold a value other than the fill value.
NonFillCells == {i \in 1..shape : ~AllFill(ReadNow(i, i))}

\* C1: after update_data of block D into bounds B, read_data over B returns D,
\* whether D holds fill values or not and whether a dense block existed or not.
C1_RoundTrip ==
    call.op = "update_data" => ReadNow(call.lo, call.hi) = call.data

\* C1 case: a block with both a fill and a non-fill value written over an
\* existing dense block.
C1_Witness ==
    /\ call.op = "update_data"
    /\ pre.data # None
    /\ \E i \in DOMAIN call.data : IsFill(call.data[i], fill_value)
    /\ \E i \in DOMAIN call.data : ~IsFill(call.data[i], fill_value)

\* C2: a read_data call on a container without dense block returns a block of
\* the bounds' shape in which every cell is the fill value.
C2_AbsentBlockReadsFill ==
    (call.op = "read_data" /\ data = None) =>
        /\ Len(ret) = create_shape_from_slice(call.lo, call.hi)
        /\ AllFill(ret)

\* C2 case: a read of a container with a NaN fill value whose dense block is
\* absent.
C2_Witness ==
    /\ call.op = "read_data"
    /\ data = None
    /\ IsNaN(fill_value)
    /\ call.hi > call.lo

\* C3 (as claimed): the empty-cell counter equals the number of cells holding
\* the fill value, or the total cell count when the dense block is absent.
C3_CounterExact ==
    empty_cells =
        IF data = None THEN TotalCells
        ELSE Cardinality({i \in 1..shape : IsFill(data[i], fill_value)})

\* C4 (as claimed): the dense block is present iff some cell holds a value
\* other than the fill value.
C4_BlockIffNonFill == (data # None) <=> (NonFillCells # {})

\* The cells that held a value other than the fill value when the last call
\* started.
NonFillCellsBefore == {i \in 1..shape : ~AllFill(ReadBefore(i, i))}

\* C5: from a fresh array, after non-overlapping updates that wrote non-fill
\* values into k cells, the counter is the total cell count minus k; each
\* update adds the cells it covers to the k cells written.
C5_CounterConverges ==
    /\ empty_cells = TotalCells - Cardinality(NonFillCells)
    /\ call.op = "update_data" =>
          NonFillCells = NonFillCellsBefore \cup (call.lo .. call.hi)

\* C5 case: a second update, after which at least two cells are written.
C5_Witness ==
    /\ call.op = "update_data"
    /\ pre.data # None
    /\ Cardinality(NonFillCells) >= 2

\* C6 (as claimed): clear_data over a region whose cells all hold the fill
\* value leaves the empty-cell counter unchanged.
C6_IdempotentClear ==
    (call.op = "clear_data" /\ AllFill(ReadBefore(call.lo, call.hi))) =>
        empty_cells = pre.empty_cells

\* C7: clear_data over the full extent of an array whose dense block exists
\* deletes the block and sets the counter to the total cell count, so that
\* read_data of any bounds returns only fill values.
C7_FullClearCollapse ==
    (call.op = "clear_data" /\ pre.data # None /\ call.lo = 1 /\ call.hi = shape) =>
        /\ data = None
        /\ empty_cells = TotalCells
        /\ \A b \in Bounds(shape) : AllFill(ReadNow(b[1], b[2]))

\* C7 case: a full clear of a block that held a non-fill value while the
\* counter was below the total.
C7_Witness ==
    /\ call.op = "clear_data"
    /\ call.lo = 1 /\ call.hi = shape
    /\ pre.data # None
    /\ \E i \in DOMAIN pre.data : ~IsFill(pre.data[i], fill_value)
    /\ data = None


\* The value of cell i as read_data gives it, for a dense block ds.
CellOf(ds, i) == ReadBlock(ds, shape, i, i, fill_value)[1]

\* A step leaves the value of every cell outside lo..hi as it was.
OutsideKept(lo, hi) ==
    \A i \in (1..shape) \ (lo..hi) : CellOf(data', i) = CellOf(data, i)

\* C24: update_data into bounds leaves the value of every cell outside the
\* bounds unchanged, whether the dense block is allocated by the call,
\* overwritten in place or deleted by it.
C24_UpdateKeepsOutside ==
    [][call'.op = "update_data" => OutsideKept(call'.lo, call'.hi)]_vars

\* C24 case: an update in place beside a cell, outside its bounds, that holds
\* a value other than the fill value.
C24_Witness ==
    /\ call.op = "update_data"
    /\ pre.data # None
    /\ data # None
    /\ \E i \in (1..shape) \ (call.lo..call.hi) : ~IsFill(CellOf(data, i), fill_value)

\* C25 (as claimed): clear_data over bounds sets every cell in the bounds to
\* the fill value and leaves the value of every cell outside the bounds
\* unchanged.
C25_ClearKeepsOutside ==
    [][call'.op = "clear_data" =>
          /\ \A i \in call'.lo..call'.hi : IsFill(CellOf(data', i), fill_value)
          /\ OutsideKept(call'.lo, call'.hi)]_vars

\* The part of C25 about the cells in the bounds only.
ClearFillsBounds ==
    [][call'.op = "clear_data" =>
          \A i \in call'.lo..call'.hi : IsFill(CellOf(data', i), fill_value)]_vars

---------------------------------------------------------------------------
\* Specifications of the store.

ContainerIdle ==
    /\ shape = 1
    /\ fill_value = 0
    /\ data = None
    /\ empty_cells = calculate_total_cells_in_array(shape)
    /\ call = Call("create", 0, 0, None)
    /\ pre = [data |-> None, empty_cells |-> empty_cells]
    /\ ret = None
    /\ meta = CreatedMeta
    /\ vdoc = None

InitStore == StoreIdle /\ ContainerIdle /\ RegistryIdle /\ OptionsIdle

ArrayCreate == \E id \in Ids : array_create(id) /\ UNCHANGED notStore

ArrayDelete == \E id \in Ids : array_delete(id) /\ UNCHANGED notStore

GetByPrimaryAttributes ==
    \E a \in Attrs : get_by_primary_attributes(a) /\ UNCHANGED notStore

UnlinkTarget == \E id \in Ids : unlink_target(id) /\ UNCHANGED notStore

GetById == \E id \in Ids : get_by_id(id) /\ UNCHANGED notStore

VArrayCreate == \E v \in Vids : varray_create(v) /\ UNCHANGED notStore

ArrayIsDeleted == \E id \in Ids : array_is_deleted(id) /\ UNCHANGED notStore

NextStore ==
    \/ ArrayCreate \/ ArrayDelete \/ GetByPrimaryAttributes \/ GetById
    \/ VArrayCreate \/ ArrayIsDeleted

\* The store under whole create, delete and lookup calls, one at a time.
SpecStore == InitStore /\ [][NextStore]_vars

NextBrokenLink ==
    \/ ArrayCreate \/ ArrayDelete \/ GetByPrimaryAttributes \/ GetById
    \/ VArrayCreate \/ UnlinkTarget

\* The same, with link targets removed behind the adapter's back.
SpecBrokenLink == InitStore /\ [][NextBrokenLink]_vars

RaceBegin == \E id \in Ids : CreateBegin(id) /\ UNCHANGED notStore

RaceCheckFile == \E id \in Ids : CreateCheckFile(id) /\ UNCHANGED notStore

RaceCheckSymlink == \E id \in Ids : CreateCheckSymlink(id) /\ UNCHANGED notStore

RaceStorage == \E id \in Ids : CreateStorage(id) /\ UNCHANGED notStore

RaceSymlink == \E id \in Ids : CreateSymlink(id) /\ UNCHANGED notStore

NextCreateRace ==
    \/ RaceBegin \/ RaceCheckFile \/ RaceCheckSymlink \/ RaceStorage \/ RaceSymlink
    \/ VArrayCreate

\* Concurrent create calls for different array ids, their file-system steps
\* interleaved.
SpecCreateRace == InitStore /\ [][NextCreateRace]_vars

StepReadlink == \E id \in Ids : DeleteReadlink(id) /\ UNCHANGED notStore

StepRemoveData == \E id \in Ids : DeleteRemoveData(id) /\ UNCHANGED notStore

StepUnlink == \E id \in Ids : DeleteUnlink(id) /\ UNCHANGED notStore

StepSweep == \E id \in Ids : DeleteSweep(id) /\ UNCHANGED notStore

NextSteps ==
    \/ RaceBegin \/ RaceCheckFile \/ RaceCheckSymlink \/ RaceStorage \/ RaceSymlink
    \/ StepReadlink \/ StepRemoveData \/ StepUnlink \/ StepSweep
    \/ VArrayCreate

\* Create and delete calls as the sequences of their file-system steps, every
\* state between two steps being a state of the store.
SpecSteps == InitStore /\ [][NextSteps]_vars

\* delete_all_by_vid beside the creates, in their steps, of the arrays of
\* virtual arrays; a container may be removed from outside the adapter.
Constituents == {id \in Ids : array_vid(id) \in Vids}

BatchCreateBegin == \E id \in Constituents : CreateBegin(id) /\ UNCHANGED notStore

BatchCreateCheckFile ==
    \E id \in Constituents : CreateCheckFile(id) /\ UNCHANGED notStore

BatchCreateCheckSymlink ==
    \E id \in Constituents : CreateCheckSymlink(id) /\ UNCHANGED notStore

BatchCreateStorage ==
    \E id \in Constituents : CreateStorage(id) /\ UNCHANGED notStore

BatchCreateSymlink ==
    \E id \in Constituents : CreateSymlink(id) /\ UNCHANGED notStore

BatchUnlinkTarget ==
    \E id \in Constituents : unlink_target(id) /\ UNCHANGED notStore

DeleteAllBegin == \E v \in Vids : delete_all_begin(v) /\ UNCHANGED notBatch

DeleteAllDispatch ==
    \E id \in Ids : \E refused \in BOOLEAN :
        delete_all_dispatch(id, refused) /\ UNCHANGED notBatch

DeleteAllReturn == delete_all_return /\ UNCHANGED notBatch

NextBatch ==
    \/ BatchCreateBegin \/ BatchCreateCheckFile \/ BatchCreateCheckSymlink
    \/ BatchCreateStorage \/ BatchCreateSymlink
    \/ VArrayCreate \/ BatchUnlinkTarget
    \/ DeleteAllBegin \/ DeleteAllDispatch \/ DeleteAllReturn
    \/ StepRemoveData \/ StepUnlink \/ StepSweep

SpecBatch == InitStore /\ [][NextBatch]_vars

---------------------------------------------------------------------------
\* Properties of the store.

\* C8: when an array with the same primary attributes and another id exists,
\* create fails with the "already exists" DekerValidationError and leaves no
\* container and no symlink for the array it was asked to create.
C8_AttributeUniqueness ==
    (/\ req.op = "create"
     /\ \E other \in Ids \ {req.id} :
           /\ primary_attributes(other) = req.attrs
           /\ other \in main_files
           /\ other \in symlinks) =>
        /\ res = Res("DekerValidationError", req.id)
        /\ req.id \notin main_files
        /\ req.id \notin symlinks

\* C8 case: a create rejected because another array holds the attributes.
C8_Witness ==
    /\ req.op = "create"
    /\ res.kind = "DekerValidationError"
    /\ \E other \in Ids \ {req.id} :
          primary_attributes(other) = req.attrs /\ other \in symlinks

\* C9 (as claimed): at most one link record per combination of primary
\* attributes, also under concurrent creates for different ids.
C9_OneLinkPerAttributes == \A a \in Attrs : Cardinality(Entries(a)) <= 1

\* C10: a lookup in a directory that holds a symlink whose target is missing
\* raises DekerBrokenSymlinkError; it does not return None.
C10_BrokenLinkDetected ==
    (/\ req.op = "get_by_primary_attributes"
     /\ \E e \in Entries(req.attrs) : e \notin main_files) =>
        /\ res.kind = "DekerBrokenSymlinkError"
        /\ res.kind # "None"

\* C10 case: a lookup that met a dangling symlink.
C10_Witness ==
    /\ req.op = "get_by_primary_attributes"
    /\ \E e \in Entries(req.attrs) : e \notin main_files
    /\ res.kind = "DekerBrokenSymlinkError"

\* C11 (as claimed): in every state of the store, the states between the
\* steps of one create or one delete included, the target of every existing
\* symlink is an existing container file.
C11_LinksResolve == symlinks \subseteq main_files

\* A step is a delete call that removed the array id.
DeletedArray(id) ==
    /\ id \in symlinks
    /\ id \notin symlinks'
    /\ req' = Req("delete", id, primary_attributes(id))

\* The directories a delete of the last array in them has to remove: the
\* file's parent, the upper shard directory once it holds no directory, and
\* the directory of the primary attributes once it holds no symlink.
ShardDirsPruned(id) ==
    /\ id \notin main_dirs'
    /\ {j \in main_dirs' : shard(j) = shard(id)} = {} => shard(id) \notin shard_dirs'
    /\ Entries(primary_attributes(id))' = {} =>
          primary_attributes(id) \notin symlink_dirs'

\* No step removes a root directory.
RootsKept == roots \subseteq roots'

\* C12 (as claimed): a delete of the last array in a shard directory removes
\* that directory and every ancestor emptied by it, and no delete removes the
\* data root or the symlink root, even when they become empty.
C12_PruneUpToRoots ==
    [][/\ \A id \in Ids : DeletedArray(id) => ShardDirsPruned(id)
       /\ RootsKept]_vars

\* The part of C12 about the root directories only.
RootsNeverRemoved == [][RootsKept]_vars

\* A step is a create call for the array id that failed one of its checks.
FailedCreate(id) ==
    /\ req' = Req("create", id, primary_attributes(id))
    /\ res'.kind \in {"DekerArrayError", "DekerValidationError"}
    /\ res'.id = id

\* The files and link records only.
FilesAndLinksUnchanged == UNCHANGED <<main_files, symlinks>>

\* C20 (as claimed): a create that fails a check (container exists, parent
\* virtual array missing, attribute directory not empty) writes nothing: the
\* files, the symlinks and the directories are as before the call.
C20_FailedCreateWritesNothing ==
    [][\A id \in Ids :
          FailedCreate(id) =>
              /\ FilesAndLinksUnchanged
              /\ UNCHANGED <<main_dirs, symlink_dirs, shard_dirs, roots>>]_vars

\* The part of C20 about files and link records only.
FailedCreateKeepsFiles ==
    [][\A id \in Ids : FailedCreate(id) => FilesAndLinksUnchanged]_vars

\* A step is the return of a delete call for the array id: the end of its
\* sweep, or the call that found no symlink and ended at once.
DeleteReturns(id) ==
    \/ pc[id] = "sweep" /\ pc'[id] = "idle"
    \/ /\ req' = Req("delete", id, primary_attributes(id))
       /\ res' = Res("deleted", id)
       /\ pc' = pc

\* C21 (as claimed): when delete(array) returns without error, the array has
\* no main container and no link record, also when the call found the
\* container without its link record, and get_by_id for the id returns None.
C21_DeleteRemovesBoth ==
    [][\A id \in Ids :
          DeleteReturns(id) =>
              /\ id \notin main_files'
              /\ id \notin symlinks'
              /\ ById(id)' = Res("None", 0)]_vars

\* C23: delete_all_by_vid does not return normally when the metadata of one
\* of its arrays could not be read or the delete of one of them raised.
C23_BatchFailureRaised ==
    batch.result.kind = "returned" => batch.failed = {}

\* C23 case: of two arrays of the virtual array one was deleted and the
\* delete of the other raised, and the call raised.
C23_Witness ==
    /\ batch.phase = "idle"
    /\ batch.result.kind = "raised"
    /\ \E id \in batch.items : id \in batch.failed /\ id \in symlinks
    /\ \E id \in batch.items : id \notin batch.failed /\ id \notin symlinks

\* The array is already deleted: no symlink, no container, and the directory
\* of the container pruned.
AlreadyDeleted(id) ==
    /\ id \notin symlinks
    /\ id \notin main_files
    /\ id \notin main_dirs

\* C30: delete of an array that is already deleted raises no error and
\* changes no file, no symlink and no directory on disk.
C30_DeleteIdempotent ==
    [][\A id \in Ids :
          (req' = Req("delete", id, primary_attributes(id)) /\ AlreadyDeleted(id))
          => /\ res' = Res("deleted", id)
             /\ UNCHANGED <<main_files, symlinks, main_dirs, symlink_dirs,
                            shard_dirs, roots, varray_dirs>>]_vars

\* C30 case: a delete returned for an array that is deleted, on a disk where
\* arrays were created before (the roots exist).
C30_Witness ==
    /\ req.op = "delete"
    /\ res = Res("deleted", req.id)
    /\ req.id \in Ids
    /\ AlreadyDeleted(req.id)
    /\ roots # {}

---------------------------------------------------------------------------
\* Specification of the array adapter over the container of one array.

\* Largest shape (n,) of the array in this specification.
MaxShape == 2

\* The collection before the array is created: no container file, no
\* document of the virtual array.
InitArray ==
    /\ StoreIdle /\ RegistryIdle /\ OptionsIdle
    /\ shape \in 1..MaxShape
    /\ fill_value \in FillValues
    /\ data = None
    /\ empty_cells = 0
    /\ meta = None
    /\ vdoc = None
    /\ call = Call("returned", 0, 0, None)
    /\ pre = [data |-> None, empty_cells |-> 0]
    /\ ret = None

AdapterCreate ==
    Returned /\ adapter_create /\ UNCHANGED notArray

AdapterDelete ==
    Returned /\ adapter_delete /\ UNCHANGED notArray

StorageCreate ==
    Returned /\ storage_create /\ UNCHANGED notArray

AdapterRead ==
    /\ Returned
    /\ \E b \in Bounds(shape) : array_read_data(b[1], b[2])
    /\ UNCHANGED notContainer

AdapterReadMeta == Returned /\ array_read_meta /\ UNCHANGED notContainer

AdapterUpdate ==
    /\ Returned
    /\ \E b \in Bounds(shape) :
          \E payload \in Blocks(create_shape_from_slice(b[1], b[2])) \cup {None} :
              array_update(b[1], b[2], payload)
    /\ UNCHANGED notContainer

AdapterUpdateMeta ==
    /\ Returned
    /\ \E attributes \in CustomAttributes :
          array_update_meta_custom_attributes(attributes)
    /\ UNCHANGED notContainer

AdapterClear ==
    /\ Returned
    /\ \E b \in Bounds(shape) : array_clear(b[1], b[2])
    /\ UNCHANGED notContainer

VArrayDocumentCreate ==
    Returned /\ varray_document_create /\ UNCHANGED notArray

VArrayReadMeta == Returned /\ varray_read_meta /\ UNCHANGED notContainer

VArrayUpdateMeta ==
    /\ Returned
    /\ \E attributes \in CustomAttributes :
          varray_update_meta_custom_attributes(attributes)
    /\ UNCHANGED notContainer

NextArray ==
    \/ AdapterCreate \/ AdapterDelete \/ StorageCreate
    \/ AdapterRead \/ AdapterReadMeta \/ AdapterUpdate \/ AdapterUpdateMeta
    \/ AdapterClear
    \/ VArrayDocumentCreate \/ VArrayReadMeta \/ VArrayUpdateMeta
    \/ Return

\* One array from before its creation to after its deletion, with the
\* document of a virtual array beside it.
SpecArray == InitArray /\ [][NextArray]_vars

---------------------------------------------------------------------------
\* Properties of the array adapter.

\* A step is an update of the array with a None payload.
UpdateWithNone == call'.op \in {"update", "update_data"} /\ call'.data = None

\* The datasets of the container.
ContainerUnchanged == UNCHANGED <<data, empty_cells, meta>>

\* C22: update with a None payload raises the ValueError and leaves the dense
\* block, the counter and the metadata of the container as they were.
C22_NonePayloadRejected ==
    [][UpdateWithNone => ret' = Raised("ValueError") /\ ContainerUnchanged]_vars

\* C22 case: a None payload was rejected for an array that has a dense block.
C22_Witness ==
    /\ call.op = "update"
    /\ call.data = None
    /\ ret = Raised("ValueError")
    /\ file_exists
    /\ data # None

\* C26: read_data and read_meta leave the container as it was: the dense
\* block (present or not), the counter and the metadata.
C26_ReadsChangeNothing ==
    [][call'.op \in {"read_data", "read_meta"} => ContainerUnchanged]_vars

\* C26 case: a read_data of a container without a dense block returned the
\* block synthesized from the fill value.
C26_Witness ==
    /\ call.op = "read_data"
    /\ file_exists
    /\ data = None
    /\ ret = Full(create_shape_from_slice(call.lo, call.hi), fill_value)

\* The fields of a metadata text other than the custom attributes.
OtherFields(text) ==
    LET m == json_loads(text)
    IN  <<m.id, m.primary_attributes, m.vid>>

\* A text holds the custom attributes given and, in its other fields, what
\* the text before held.
OnlyCustomAttributesReplaced(before, after, attributes) ==
    /\ after # None
    /\ OtherFields(after) = OtherFields(before)
    /\ json_loads(after).custom_attributes = attributes

\* C27 (as claimed): update_meta_custom_attributes on a container that has
\* its metadata, and on the document of a virtual array, replaces the custom
\* attributes by the ones given and nothing else: the other fields, the
\* dense block and the counter stay, and read_meta gives the new attributes.
C27_OnlyCustomAttributes ==
    [][/\ (call'.op = "update_meta_custom_attributes" /\ file_exists /\ meta # None) =>
            /\ OnlyCustomAttributesReplaced(meta, meta', call'.data)
            /\ UNCHANGED <<data, empty_cells>>
       /\ (call'.op = "varray_update_meta_custom_attributes" /\ vdoc # None) =>
            OnlyCustomAttributesReplaced(vdoc, vdoc', call'.data)]_vars

\* The part of C27 about the dense block and the counter only.
MetaUpdateKeepsData ==
    [][call'.op \in {"update_meta_custom_attributes",
                     "varray_update_meta_custom_attributes"} =>
          UNCHANGED <<data, empty_cells>>]_vars

\* The part of C27 about the calls that return: the other fields stay.
MetaUpdateKeepsOtherFields ==
    [][(call'.op = "update_meta_custom_attributes" /\ file_exists /\ meta # None
        /\ ~IsRaised(ret')) =>
          /\ meta' # None
          /\ OtherFields(meta') = OtherFields(meta)]_vars

\* A call found the file of the array without its meta slot.
SlotMissing(op) == call'.op = op /\ file_exists /\ meta = None

\* C28: on a container whose meta slot is missing, read_meta and
\* update_meta_custom_attributes raise the DekerArrayError ("No metadata")
\* and write nothing: no slot is made, the dense block and the counter stay;
\* read_meta of a virtual array whose document cannot be read raises it too.
C28_MissingMetaRaises ==
    [][/\ (SlotMissing("read_meta") \/ SlotMissing("update_meta_custom_attributes")) =>
            /\ ret' = Raised("DekerArrayError")
            /\ ContainerUnchanged
       /\ (call'.op = "varray_read_meta" /\ vdoc = None) =>
            /\ ret' = Raised("DekerArrayError")
            /\ UNCHANGED vdoc]_vars

\* C28 case: update_meta_custom_attributes was refused on a container that
\* has a dense block and no meta slot.
C28_Witness ==
    /\ call.op = "update_meta_custom_attributes"
    /\ file_exists
    /\ ret = Raised("DekerArrayError")
    /\ meta = None
    /\ data # None

\* C29 (as claimed): create of the storage adapter on a path where a
\* container exists fails and leaves the metadata, the counter and the dense
\* block of that container unchanged.
C29_StorageCreateFails ==
    [][(call'.op = "create" /\ file_exists) =>
          ret' # None /\ IsRaised(ret') /\ ContainerUnchanged]_vars

\* A step is a create of the array adapter: one that failed a check, or one
\* that made the container and its symlink.
AdapterCreateStep ==
    \/ call'.op = "array_create"
    \/ call'.op = "create" /\ TheArray \in symlinks' \ symlinks

\* C29 (amended): create of the array adapter on an array whose container
\* exists fails with the DekerArrayError of check_array_file_existence,
\* before the storage adapter is called, and leaves the metadata, the counter
\* and the dense block of that container unchanged.
C29_AdapterCreateFails ==
    [][(AdapterCreateStep /\ file_exists) =>
          /\ res' = Res("DekerArrayError", TheArray)
          /\ ContainerUnchanged]_vars

\* C29 case: a create of the array adapter was refused for an array whose
\* container holds a dense block.
C29_Witness ==
    /\ call.op = "array_create"
    /\ ret = Raised("DekerArrayError")
    /\ file_exists
    /\ data # None

---------------------------------------------------------------------------
\* Specifications of the registry.

InitRegistry == RegistryIdle /\ StoreIdle /\ ContainerIdle /\ OptionsIdle

CollCreate == \E c \in Collections : coll_create(c) /\ UNCHANGED notRegistry

CollRead == \E n \in Names : coll_read(n) /\ UNCHANGED notRegistry

CollDelete == \E c \in Collections : coll_delete(c) /\ UNCHANGED notRegistry

CollClear == \E c \in Collections : coll_clear(c) /\ UNCHANGED notRegistry

CollIsDeleted == \E c \in Collections : coll_is_deleted(c) /\ UNCHANGED notRegistry

CollIter == coll_iter /\ UNCHANGED notRegistry

ArrayPathsCreate == \E n \in Names : array_paths_create(n) /\ UNCHANGED notRegistry

ArrayStorageCreate ==
    \E n \in Names : array_storage_create(n) /\ UNCHANGED notRegistry

NextRegistry ==
    CollCreate \/ CollRead \/ CollDelete \/ CollClear \/ CollIsDeleted \/ CollIter

\* The registry under its own calls, one at a time.
SpecRegistry == InitRegistry /\ [][NextRegistry]_vars

NextRegistryInUse ==
    \/ CollCreate \/ CollRead \/ CollDelete \/ CollClear \/ CollIsDeleted \/ CollIter
    \/ ArrayPathsCreate \/ ArrayStorageCreate

\* The same, with array adapters writing below the collection directories.
SpecRegistryInUse == InitRegistry /\ [][NextRegistryInUse]_vars

---------------------------------------------------------------------------
\* Properties of the registry.

\* The bytes the memory check of create counts for a schema: the cells of
\* schema_shape, each of ItemSize bytes.
Footprint(schema) == schema_shape(schema) * ItemSize

\* C13: a create of a collection whose schema footprint exceeds the memory
\* limit fails with DekerMemoryError and makes no collection directory and no
\* metadata document: directories, documents and their contents stay as they
\* were.
C13_MemoryLimit ==
    [][\A c \in Collections :
          (creq' = CReq("create", c.name, c) /\ Footprint(c.schema) > MemoryLimit) =>
              /\ cres'.kind = "DekerMemoryError"
              /\ UNCHANGED <<coll_dirs, coll_docs, coll_tree>>]_vars

\* C13 case: a create rejected by the memory check, for a name that has no
\* directory.
C13_Witness ==
    /\ creq.op = "create"
    /\ Footprint(creq.collection.schema) > MemoryLimit
    /\ cres.kind = "DekerMemoryError"
    /\ creq.name \notin coll_dirs
    /\ coll_docs[creq.name] = None

\* A step is the call create(c).
IsCreateOf(c) == creq' = CReq("create", c.name, c)

\* What create does for a name whose directory exists, and for a fresh name.
CreateRespectsExisting(c) ==
    IF c.name \in coll_dirs
    THEN /\ cres'.kind = "DekerCollectionAlreadyExistsError"
         /\ UNCHANGED <<coll_dirs, coll_docs, coll_tree>>
    ELSE /\ c.name \in coll_dirs'
         /\ cres'.kind = "created"

\* C14 (as claimed): a create for a name whose directory exists fails with
\* DekerCollectionAlreadyExistsError and leaves the document and the contents
\* of that collection unchanged; a create for a fresh name creates its
\* directory.
C14_AlreadyExists ==
    [][\A c \in Collections : IsCreateOf(c) => CreateRespectsExisting(c)]_vars

\* C14 (amended): the same for every create whose schema passes the memory
\* check, which create makes first.
C14_AlreadyExistsWithinLimit ==
    [][\A c \in Collections :
          (IsCreateOf(c) /\ Footprint(c.schema) <= MemoryLimit) =>
              CreateRespectsExisting(c)]_vars

\* C14 case: a create rejected for a collection that has its document and
\* array files.
C14_Witness ==
    /\ creq.op = "create"
    /\ cres.kind = "DekerCollectionAlreadyExistsError"
    /\ coll_docs[creq.name] # None
    /\ json_loads(coll_docs[creq.name]) # as_dict(creq.collection)
    /\ ArrayFile \in coll_tree[creq.name]

\* What read(name) gives in the current state.
ReadOf(name) == ReadOutcome(dir_name(name))

\* C15: after clear of a collection, its directory still exists and holds
\* its metadata document and nothing else, the files and sub-directories of
\* the array stores being removed, and read(name) gives the metadata it gave
\* before the clear.
C15_ClearKeepsDocument ==
    [][\A c \in Collections :
          (/\ creq' = CReq("clear", c.name, c)
           /\ c.name \in coll_dirs
           /\ coll_docs[c.name] # None) =>
              /\ c.name \in coll_dirs'
              /\ coll_docs'[c.name] # None
              /\ coll_tree'[c.name] = {}
              /\ ReadOf(c.name)'.kind = "metadata"
              /\ ReadOf(c.name)' = ReadOf(c.name)]_vars

\* C15 case: a clear that removed the root directories of the array store
\* and a container file, the document being all the directory holds now.
C15_Witness ==
    /\ creq.op = "clear"
    /\ cres.kind = "cleared"
    /\ ArrayFile \in cres.value
    /\ ArrayDirs \subseteq cres.value
    /\ creq.name \in coll_dirs
    /\ coll_docs[creq.name] # None
    /\ coll_tree[creq.name] = {}

\* C16: after delete(collection) has returned, the directory of the
\* collection with all it held and the lock file <name>.lock do not exist,
\* is_deleted(collection) is true and read(name) raises
\* DekerCollectionNotExistsError.
C16_DeleteRemovesAll ==
    creq.op = "delete" =>
        /\ creq.name \notin coll_dirs
        /\ coll_docs[creq.name] = None
        /\ coll_tree[creq.name] = {}
        /\ creq.name \notin coll_locks
        /\ is_deleted(creq.name)
        /\ ReadOf(creq.name).kind = "DekerCollectionNotExistsError"

\* C16 case: a delete of a collection that had array files and a lock file.
C16_Witness ==
    /\ creq.op = "delete"
    /\ cres.kind = "deleted"
    /\ ArrayFile \in cres.value.tree
    /\ cres.value.lock

\* The collections that exist: created and not deleted since, their
\* directory holding their metadata document.
Existing == {n \in Names : n \in coll_dirs /\ coll_docs[n] # None}

\* C17: under create and delete calls (reads, clears and iterations between
\* them), an iteration of the registry yields the metadata of exactly the
\* collections that exist: one document per existing name, none for any other.
C17_IterYieldsExisting ==
    creq.op = "iter" =>
        /\ cres.kind = "metadatas"
        /\ {m.name : m \in cres.value} = Existing
        /\ cres.value = {json_loads(coll_docs[n]) : n \in Existing}
        /\ Existing = coll_dirs

\* C17 case: an iteration that yields one collection while the lock file of
\* a collection is among the entries scanned.
C17_Witness ==
    /\ creq.op = "iter"
    /\ cres.kind = "metadatas"
    /\ Cardinality(cres.value) = 1
    /\ coll_locks # {}
    /\ Existing # Names

\* The metadata create writes for the name n: as_dict of a collection of
\* that name whose schema passes the memory check.
WrittenByCreate(n) ==
    {as_dict(c) : c \in {x \in Collections :
                            x.name = n /\ Footprint(x.schema) <= MemoryLimit}}

\* C18: read(name) returns the metadata document create wrote when
\* <name>.json exists, and raises DekerCollectionNotExistsError when it does
\* not: for a name never created or deleted, and for a directory that holds
\* no document.
C18_ReadOrNotFound ==
    creq.op = "read" =>
        IF coll_docs[creq.name] # None
        THEN /\ cres.kind = "metadata"
             /\ cres.value = json_loads(coll_docs[creq.name])
             /\ cres.value \in WrittenByCreate(creq.name)
        ELSE cres.kind = "DekerCollectionNotExistsError"

\* C18 case: a read that raised for a directory without document, the
\* other collection having its document.
C18_Witness ==
    /\ creq.op = "read"
    /\ creq.name \in coll_dirs
    /\ coll_docs[creq.name] = None
    /\ cres.kind = "DekerCollectionNotExistsError"
    /\ \E n \in Names \ {creq.name} : ReadOf(n).kind = "metadata"

---------------------------------------------------------------------------
\* Specification and properties of the storage options.

\* Options are about to be built from arguments of the sets explored.
InitOptions ==
    /\ o_pc = "args"
    /\ o_args \in OptionsArgs
    /\ o_options = PyNone
    /\ o_dict = PyNone
    /\ o_kwargs = PyNone
    /\ o_back = PyNone
    /\ StoreIdle /\ ContainerIdle /\ RegistryIdle

ConstructOptions == construct_options /\ UNCHANGED notOptions

ExportOptions == export_options /\ UNCHANGED notOptions

ImportOptions == import_options /\ UNCHANGED notOptions

RebuildOptions == rebuild_options /\ UNCHANGED notOptions

NextOptions == ConstructOptions \/ ExportOptions \/ ImportOptions \/ RebuildOptions

\* Options built, exported with as_dict, imported with _process_options and
\* rebuilt.
SpecOptions == InitOptions /\ [][NextOptions]_vars

\* The rebuilt options equal the options exported, and so do their as_dict.
RoundTrips ==
    /\ ~IsRaised(o_back)
    /\ o_back = o_options
    /\ options_as_dict(o_back) = o_dict

\* C19 (as claimed): for every valid HDF5Options value o, the options
\* rebuilt from _process_options(o.as_dict) equal o and have the same
\* as_dict.
C19_OptionsRoundTrip == o_pc = "done" => RoundTrips

---------------------------------------------------------------------------
\* Specifications of the directory trees.

PathCreateBegin == \E a \in Racers : path_create_begin(a) /\ UNCHANGED notPaths

PathMkdir == \E a \in Racers : path_mkdir(a) /\ UNCHANGED notPaths

PathCheckFile == \E a \in Racers : path_check_file(a) /\ UNCHANGED notPaths

PathCheckSymlink == \E a \in Racers : path_check_symlink(a) /\ UNCHANGED notPaths

PathStorageCreate == \E a \in Racers : path_storage_create(a) /\ UNCHANGED notPaths

PathSymlink == \E a \in Racers : path_symlink(a) /\ UNCHANGED notPaths

PathReadlink == \E a \in Racers : path_readlink(a) /\ UNCHANGED notPaths

PathRemove == \E a \in Racers : path_remove(a) /\ UNCHANGED notPaths

PathUnlink == \E a \in Racers : path_unlink(a) /\ UNCHANGED notPaths

PathParentExists == \E a \in Racers : path_parent_exists(a) /\ UNCHANGED notPaths

PathListdir == \E a \in Racers : path_listdir(a) /\ UNCHANGED notPaths

PathFolderExists == \E a \in Racers : path_folder_exists(a) /\ UNCHANGED notPaths

PathRmdir == \E a \in Racers : path_rmdir(a) /\ UNCHANGED notPaths

NextPaths ==
    \/ PathCreateBegin \/ PathMkdir \/ PathCheckFile \/ PathCheckSymlink
    \/ PathStorageCreate \/ PathSymlink
    \/ PathReadlink \/ PathRemove \/ PathUnlink \/ PathParentExists
    \/ PathListdir \/ PathFolderExists \/ PathRmdir

\* Create and delete calls of different arrays, one call per array at a time,
\* their file-system calls interleaved.
SpecPaths == InitStore /\ [][NextPaths]_vars

---------------------------------------------------------------------------
\* Properties of the lookups.

\* The link records in the directory of primary attributes a.
LinksOf(a) == {id \in symlinks : primary_attributes(id) = a}

\* C31: after any sequence of creates and deletes,
\* get_by_primary_attributes(a) returns the array whose link record lies in
\* the directory of a if there is one, and None if that directory is missing
\* or empty; get_by_id(id) returns the array if and only if a container
\* exists at the main path of id.
C31_LookupAgrees ==
    [][/\ \A a \in Attrs :
            req' = Req("get_by_primary_attributes", 0, a) =>
               IF a \notin symlink_dirs \/ LinksOf(a) = {}
               THEN res' = Res("None", 0)
               ELSE res'.kind = "array" /\ res'.id \in LinksOf(a)
       /\ \A id \in Ids :
            req' = Req("get_by_id", id, 0) =>
               res' = IF id \in main_files THEN Res("array", id)
                      ELSE Res("None", 0)]_vars

\* C31 case: a lookup by primary attributes found its array while the array
\* of other primary attributes exists beside it.
C31_Witness ==
    /\ req.op = "get_by_primary_attributes"
    /\ res.kind = "array"
    /\ \E id \in symlinks : primary_attributes(id) # req.attrs

\* C32: after an array with primary attributes a was created and deleted, a
\* create of a new array with the same a succeeds: a delete that removes an
\* array leaves no entry in the directory of its primary attributes, and a
\* create that finds that directory without entries, no container at its main
\* path and its virtual array present, makes the array.
C32_RecreateSucceeds ==
    [][\A id \in Ids :
          /\ (req' = Req("delete", id, primary_attributes(id)) /\ id \in symlinks)
                => /\ res' = Res("deleted", id)
                   /\ {j \in symlinks' : primary_attributes(j) = primary_attributes(id)} = {}
          /\ (/\ req' = Req("create", id, primary_attributes(id))
              /\ LinksOf(primary_attributes(id)) = {}
              /\ id \notin main_files
              /\ array_vid(id) # 0 => array_vid(id) \in varray_dirs)
                => /\ res' = Res("created", id)
                   /\ id \in main_files' /\ id \in symlinks']_vars

\* C32 case: a delete returned, the directory of the array's primary
\* attributes is on disk (a create made it) and has no entry, and no array of
\* these attributes has a directory of its own left (a delete swept it, which
\* only the delete of a created array does).
C32_Witness ==
    \E id \in Ids :
        /\ req = Req("delete", id, primary_attributes(id))
        /\ res = Res("deleted", id)
        /\ primary_attributes(id) \in symlink_dirs
        /\ LinksOf(primary_attributes(id)) = {}
        /\ \A j \in Ids :
              primary_attributes(j) = primary_attributes(id) => j \notin main_dirs

---------------------------------------------------------------------------
\* Properties of delete_all_by_vid.

\* The link records under the directory of virtual array v whose container
\* cannot be read.
Unreadable(v) == {id \in symlinks : array_vid(id) = v /\ id \notin main_files}

\* C33: delete_all_by_vid reads the metadata of every link record of the
\* virtual array before it dispatches a delete: a call that starts while one
\* of them cannot be read raises with no delete dispatched, no container and
\* no link record removed.
C33_ReadsBeforeDeletes ==
    [][\A v \in Vids :
          (/\ batch.phase = "idle"
           /\ batch' # batch
           /\ batch'.vid = v
           /\ Unreadable(v) # {})
          => /\ batch'.phase = "idle"
             /\ batch'.result = Res("raised", v)
             /\ batch'.pending = {}
             /\ UNCHANGED <<main_files, symlinks, pc>>]_vars

\* C33 case: the call raised on two link records, one unreadable, and the
\* array that could be read still has its container and its link record.
C33_Witness ==
    /\ batch.phase = "idle"
    /\ batch.result.kind = "raised"
    /\ batch.failed # {}
    /\ batch.failed \subseteq symlinks \ main_files
    /\ \E id \in batch.items \ batch.failed : id \in symlinks /\ id \in main_files

---------------------------------------------------------------------------
\* Properties of the counter and the dense block.

\* The counter lies between 0 and the total cell count.
CounterInRange ==
    /\ 0 <= empty_cells
    /\ empty_cells <= calculate_total_cells_in_array(shape)

\* C34: in every state reached by create, update_data and clear_data on one
\* container the counter lies between 0 and the total cell count, and the
\* dense block is present exactly when the counter is below the total.
C34_CounterAndBlock ==
    /\ CounterInRange
    /\ data # None <=> empty_cells < calculate_total_cells_in_array(shape)

\* C34 case: update_data and clear_data have acted, and a block is held with
\* the counter between 0 and the total.
C34_Witness ==
    /\ call.op = "clear_data"
    /\ pre.data # None
    /\ data # None
    /\ 0 < empty_cells
    /\ empty_cells < calculate_total_cells_in_array(shape)

---------------------------------------------------------------------------
\* Properties of is_deleted.

\* C35 (as claimed): is_deleted(array) returns True exactly when no container
\* exists for the id of the array, and False exactly when its container
\* exists.
C35_IsDeletedExact ==
    [][\A id \in Ids :
          req' = Req("is_deleted", id, primary_attributes(id))
          => (res'.kind = "True" <=> id \notin main_files)]_vars

\* is_deleted never answers True for an array whose container exists.
IsDeletedImpliesNoContainer ==
    \A id \in Ids : main_path_missing(id) => id \notin main_files

---------------------------------------------------------------------------
\* Properties of the sweep of delete.

\* The array is live: its container and its link record exist.
Live(b) == main_filename(b) \in tree /\ sym_filename(b) \in tree

\* The paths of a live array: its container, its link record and the
\* directories above them.
PathsOf(b) ==
    {Prefix(main_filename(b), n) : n \in 1..Len(main_filename(b))}
    \cup {Prefix(sym_filename(b), n) : n \in 1..Len(sym_filename(b))}

\* The directories among the paths.
IsDirectory(p) == \A a \in Racers : p # main_filename(a) /\ p # sym_filename(a)

\* C36: a delete of array A removes neither the container, nor the link
\* record, nor a directory above them of another array B that is live, and
\* a directory that the sweep removes has no entry when it is removed.
C36_DeleteKeepsOthers ==
    [][/\ \A b \in Racers :
            (Live(b) /\ task'[b] = task[b]) => PathsOf(b) \subseteq tree'
       /\ \A p \in tree \ tree' : IsDirectory(p) => Listdir(p) = {}]_vars

\* C36 case: the delete of one array has removed the directory of its
\* container and inspects the shard directory above it, in which the
\* directory of a live array lies.
C36_Witness ==
    \E a \in Racers : \E b \in Racers \ {a} :
        /\ task[a].op = "delete"
        /\ task[a].pc = "listdir"
        /\ task[a].folder = Parent(main_path(a))
        /\ main_path(a) \notin tree
        /\ Live(b)

\* No create has failed for a directory that went missing under it.
CreateFindsItsDirectories ==
    \A a \in Racers :
        task[a].op = "create" => task[a].out # "FileNotFoundError"

\* No delete has raised for a directory that was not empty any more.
SweepNeverRaises ==
    \A a \in Racers : task[a].op = "delete" => task[a].out # "OSError"

\* C37 (as claimed): a create of array A that runs beside a delete of another
\* array B succeeds when it passes its checks, the sweep of the delete
\* removing no directory the create has prepared, and the sweep never raises
\* for a directory that was populated after it was judged empty.
C37_CreateBesideDelete == CreateFindsItsDirectories /\ SweepNeverRaises

\* The paths of the arrays, all created.
CreatedTree == UNION {PathsOf(a) : a \in Racers}

\* The arrays of a virtual array on disk, before delete_all_by_vid hands
\* their deletes to the pool.
InitPool ==
    /\ StoreEmpty /\ ContainerIdle /\ RegistryIdle /\ OptionsIdle
    /\ tree = CreatedTree
    /\ task = [a \in Racers |-> NoTask]

\* A worker of the pool takes the delete of an array: each array once.
PoolDelete ==
    \E a \in Racers :
        task[a].op = "none" /\ path_readlink(a) /\ UNCHANGED notPaths

NextPool ==
    \/ PoolDelete \/ PathRemove \/ PathUnlink \/ PathParentExists
    \/ PathListdir \/ PathFolderExists \/ PathRmdir

\* list(executor.map(_delete, arrays)): the deletes of the arrays run side by
\* side, their file-system calls interleaved.
SpecPool == InitPool /\ [][NextPool]_vars

\* Every delete of the pool has ended.
PoolDone == \A a \in Racers : task[a].op = "delete" /\ task[a].pc = "idle"

\* No container and no link record is left.
NothingLeft == \A p \in tree : IsDirectory(p)

\* No directory below the roots is left without entries.
NoEmptyDirectory ==
    \A p \in tree :
        IsDirectory(p) => Listdir(p) # {} \/ EndsWithRoot(p[Len(p)])

\* C38 (as claimed): when the deletes of several arrays that share their
\* shard directories have run side by side on the pool and all have ended,
\* every container and link record of these arrays is gone, no delete has
\* raised, and no empty directory is left below the two roots.
C38_PoolDeletesLeaveNothing ==
    PoolDone => NothingLeft /\ SweepNeverRaises /\ NoEmptyDirectory

\* When all deletes of the pool have ended, the containers and the link
\* records are gone and no delete has raised.
PoolDeletesRemoveFiles == PoolDone => NothingLeft /\ SweepNeverRaises

---------------------------------------------------------------------------
\* The registry with create in its steps, beside iteration.

CollCreatePath ==
    \E c \in Collections : coll_create_path(c) /\ UNCHANGED notCreate

CollCreateDocument ==
    \E n \in Names : coll_create_document(n) /\ UNCHANGED notCreate

NextRegistryCreating ==
    \/ CollCreatePath \/ CollCreateDocument
    \/ CollIter \/ CollRead \/ CollDelete \/ CollIsDeleted

\* Creates of collections in their two steps; iteration, read, is_deleted and
\* delete, which take no lock, run between them.
SpecRegistryCreating == InitRegistry /\ [][NextRegistryCreating]_vars

\* C39 (as claimed): an iteration of the registry that runs beside the create
\* of a collection never raises, every collection directory it can see
\* having its metadata document.
C39_IterationNeverRaises ==
    [][creq'.op = "iter" => cres'.kind = "metadatas"]_vars

\* Every collection directory holds its metadata document.
DirectoriesHaveDocuments == \A n \in coll_dirs : coll_docs[n] # None

===========================================================================
